---- MODULE Spec2Model ----
(***************************************************************************)
(* Model of the replyking-app image normalization pipeline                 *)
(* (src/utils/imageProcessing.ts) and of the upload flow that drives it    *)
(* (src/components/ImageUpload.tsx, App.handleImageSelect), specification  *)
(* Spec, and of the Gemini client (services/geminiService.ts with          *)
(* PerformanceService.trackApiCall), specification GeminiSpec.             *)
(*                                                                         *)
(* A File is a record [type, ext, size, w, h]: the declared mime-type, the *)
(* extension of the file name (case kept), the byte size, and the pixel    *)
(* dimensions of the picture it holds (what Image.width / Image.height     *)
(* show once the file is decoded).  A nullable value is a sequence of      *)
(* length 0 (null) or 1.                                                   *)
(***************************************************************************)
EXTENDS Integers, Sequences, FiniteSets, TLC

VARIABLES
    runs,          \* one record per call of processFile / processImageForIphone
    selectedFile,  \* ImageUpload state: selectedFile (null or a File)
    previewUrl,    \* ImageUpload state: previewUrl (null or the data URL of a File)
    isProcessing,  \* ImageUpload state: isProcessing
    error,         \* ImageUpload state: error (null or a message)
    appFile,       \* App state: selectedFile, set by handleImageSelect
    objectUrls,    \* number of object URLs created and not yet revoked
    apiKey,        \* GeminiService.apiKey (null or the credential)
    apiCalls,      \* one record per call of a public GeminiService method
    network,       \* the requests fetch has sent to the model endpoint
    marks,         \* the marks of the performance timeline: name and time
    metrics,       \* PerformanceService.metrics: pairs of key and value
    image,         \* a compressImage call on its own: its arguments and progress
    now,           \* the clock: Date.now() and performance.now()
    cache,         \* CacheService.cache: for each key no entry or its CacheItem
    storage,       \* localStorage item replyking_cache: the entries last saved
    lastSet,       \* history: for each key the item of the last set that no
                   \* delete or clear followed
    returned,      \* history: the last CacheService call that returned and its result
    copySuccessId, \* ReplyResults state: copySuccessId (null or an id)
    isCopying,     \* ReplyResults state: isCopying
    copying,       \* the handleCopy / handleCopyAll call that awaits the clipboard
    timers,        \* due times of the pending setTimeout callbacks of ReplyResults
    lastSuccess,   \* history: id and time of the last copy that succeeded
    selectedTone,  \* App state: selectedTone (null or a tone)
    isAnalyzing,   \* App state: isAnalyzing
    appResult,         \* App state: analysisResult (null or an AnalysisResult)
    appError,          \* App state: error (null or a message)
    analysisStartTime, \* App state: analysisStartTime (null or a time)
    analyses,      \* history: for each call handleAnalyze made, the call of
                   \* GeminiService and the file and tone it was made with
    resultFrom     \* history: the call whose result appResult holds, or 0

uploadVars == <<runs, selectedFile, previewUrl, isProcessing, error, appFile, objectUrls>>

serviceVars == <<apiKey, apiCalls, network, marks, metrics>>

compressVars == <<image>>

cacheVars == <<cache, storage, lastSet, returned>>

clipboardVars == <<copySuccessId, isCopying, copying, timers, lastSuccess>>

appVars == <<selectedTone, isAnalyzing, appResult, appError, analysisStartTime,
             analyses, resultFrom>>

\* what the actions of the upload flow leave alone, App state apart
outsideUpload == <<serviceVars, compressVars, cacheVars, clipboardVars, now>>

\* what the Gemini client leaves alone, App state and the cache apart
outsideService == <<uploadVars, compressVars, clipboardVars, now>>

\* what a compressImage call on its own leaves alone
outsideCompress == <<uploadVars, serviceVars, cacheVars, clipboardVars, appVars, now>>

\* what the actions of CacheService leave alone
outsideCache == <<uploadVars, serviceVars, compressVars, clipboardVars, appVars>>

\* what the actions of ReplyResults leave alone
outsideClipboard == <<uploadVars, serviceVars, compressVars, cacheVars, appVars>>

\* what the handlers of App leave alone
outsideApp == <<compressVars, clipboardVars, now>>

vars == <<uploadVars, serviceVars, compressVars, cacheVars, clipboardVars, appVars, now>>

----------------------------------------------------------------------------
(* Bounds of the model *)

\* total number of processFile / processImageForIphone calls in a behaviour
MaxUploads == 2

----------------------------------------------------------------------------
(* Program constants *)

MB == 1024 * 1024

\* validateIphoneImage: const maxSize = 50 * 1024 * 1024
maxSize == 50 * MB

\* ImageUpload: maxSizeMB = 10 (App passes no maxSizeMB)
defaultMaxSizeMB == 10

\* processImageForIphone passes maxWidth: 1920, maxHeight: 1920 to compressImage
maxWidth == 1920
maxHeight == 1920

allowedTypes == {"image/jpeg", "image/jpg", "image/png", "image/heic", "image/heif"}

Null == <<>>
Some(x) == <<x>>

----------------------------------------------------------------------------
(* Inputs *)

File(type, ext, size, w, h) ==
    [type |-> type, ext |-> ext, size |-> size, w |-> w, h |-> h]

\* pixel dimensions of the oversized pictures the user selects
Dims == {<<3000, 4000>>, <<2500, 2500>>, <<10000, 1>>}

\* files the user selects in ImageUpload
UploadFiles ==
    {File("image/jpeg", "jpg", 1 * MB, 4000, 3000),       \* small in bytes, large in pixels
     File("image/heic", "HEIC", 2 * MB, 4000, 3000),      \* HEIC by mime-type and name
     File("", "heic", 2 * MB, 4000, 3000),                \* iOS Photos: empty mime-type
     File("image/gif", "gif", 1 * MB, 800, 600),          \* unsupported
     File("image/gif", "jpg", 1 * MB, 800, 600),          \* supported by name only
     File("image/jpeg", "jpg", maxSize + 1, 4000, 3000),  \* over the hard ceiling
     File("image/heic", "heic", maxSize + 1, 4000, 3000),
     File("image/png", "png", maxSize, 1000, 1000)}       \* exactly at the ceiling
    \cup {File("image/jpeg", "jpg", 12 * MB, d[1], d[2]) : d \in Dims}

\* arguments of direct calls of the exported processImageForIphone(file, maxSizeMB)
DirectArgs ==
    {<<File("", "heic", 2 * MB, 4000, 3000), 10>>,
     <<File("image/jpeg", "jpg", maxSize + 1, 3000, 4000), 10>>,
     <<File("image/jpeg", "jpg", 12 * MB, 4000, 3000), 1>>}

\* byte sizes canvas.toBlob can produce for the JPEG re-encode at quality 0.9
\* of convertHeicToJpeg (the picture keeps its pixel dimensions)
ConvertBlobSizes == {3 * MB, 12 * MB}

\* byte sizes canvas.toBlob can produce for the re-encode at quality 0.8 of
\* compressImage (at most 1920 x 1920 pixels)
CompressBlobSizes == {MB \div 2, 2 * MB}

----------------------------------------------------------------------------
(* imageProcessing.ts: pure parts *)

\* file.type.includes('heic') || file.type.includes('heif'), over the
\* mime-types of the model
includesHeicOrHeif(type) == type \in {"image/heic", "image/heif"}

\* convertHeicToJpeg line 21: the early return is taken when this is FALSE
needsHeicConversion(file) == includesHeicOrHeif(file.type)

\* file.name.replace(/\.(heic|heif)$/i, '.jpg'), on the extension of the name
replaceHeicExtension(ext) ==
    IF ext \in {"heic", "heif", "HEIC", "HEIF"} THEN "jpg" ELSE ext

\* validateIphoneImage with the size test left out
validateIphoneImage_noSizeTest(file) ==
    IF file.type \notin allowedTypes
    THEN [isValid |-> FALSE,
          error |-> <<"Please select a JPEG, PNG, or HEIC image file">>]
    ELSE [isValid |-> TRUE, error |-> Null]

\* validateIphoneImage: the mime-type test, then the size test
validateIphoneImage(file) ==
    IF file.type \notin allowedTypes
    THEN [isValid |-> FALSE,
          error |-> <<"Please select a JPEG, PNG, or HEIC image file">>]
    ELSE IF file.size > maxSize
    THEN [isValid |-> FALSE,
          error |-> <<"File is too large. Please select an image smaller than 50MB">>]
    ELSE [isValid |-> TRUE, error |-> Null]

\* newDimensions clamping the longer side without scaling the other one
newDimensions_noScale(width, height, maxW, maxH) ==
    IF width > maxW \/ height > maxH
    THEN IF width > height
         THEN [wNum |-> maxW, wDen |-> 1, hNum |-> height, hDen |-> 1]
         ELSE [wNum |-> width, wDen |-> 1, hNum |-> maxH, hDen |-> 1]
    ELSE [wNum |-> width, wDen |-> 1, hNum |-> height, hDen |-> 1]

\* compressImage img.onload, lines 76-89: the new width and height, each as
\* an exact fraction num/den (the code computes them in floating point)
newDimensions(width, height, maxW, maxH) ==
    IF width > maxW \/ height > maxH
    THEN IF width > height
         THEN [wNum |-> maxW, wDen |-> 1, hNum |-> maxW * height, hDen |-> width]
         ELSE [wNum |-> maxH * width, wDen |-> height, hNum |-> maxH, hDen |-> 1]
    ELSE [wNum |-> width, wDen |-> 1, hNum |-> height, hDen |-> 1]

\* canvas.width = width: the canvas keeps the integer part
canvasSize(num, den) == num \div den

\* Math.round(width): half rounds up
mathRound(num, den) == (2 * num + den) \div (2 * den)

\* processImageForIphone line 130
maxSizeBytes(maxSizeMB) == maxSizeMB * 1024 * 1024

\* processImageForIphone line 137: compress if the file is too large
needsCompression(file, maxBytes) == file.size > maxBytes

\* processImageForIphone lines 148-155: the result when no compression ran
unprocessedResult(file, processedFile) ==
    [file |-> processedFile,
     originalSize |-> file.size,
     processedSize |-> processedFile.size,
     width |-> 0,
     height |-> 0,
     format |-> processedFile.type]

\* processImageForIphone line 157: the catch wraps the message
wrapError(message) == <<"Failed to process image: ">> \o message

\* createImagePreview: the data URL of the file
createImagePreview(file) == <<"data:", file>>

----------------------------------------------------------------------------
(* One call of processFile (entry "processFile") or of the exported         *)
(* processImageForIphone (entry "direct").  pc is the callback the call is  *)
(* suspended on; steps is the history of the pipeline steps it has run:     *)
(*   "validate"                      validateIphoneImage was called         *)
(*   "convert" ... "convert.end"     convertHeicToJpeg called / resolved    *)
(*   "compress" ... "compress.end"   compressImage called / resolved        *)
(*   "decode"                        URL.createObjectURL + image load       *)
(* cur is the file convertHeicToJpeg resolved with (processedFile).         *)

newRun(entry, file, maxBytes) ==
    [entry |-> entry, file |-> file, maxBytes |-> maxBytes, pc |-> "start",
     cur |-> file, dims |-> newDimensions(0, 0, maxWidth, maxHeight),
     result |-> Null, err |-> Null, steps |-> <<>>, delivered |-> FALSE]

InFlight == {"convertLoad", "convertBlob", "compressLoad", "compressBlob", "preview"}

\* number of object URLs the run has created
decodes(r) == Cardinality({k \in 1..Len(r.steps) : r.steps[k] = "decode"})

\* processImageForIphone returned res: processFile goes on to createImagePreview
returnResult(r, res) ==
    [r EXCEPT !.result = Some(res),
              !.pc = IF r.entry = "processFile" THEN "preview" ELSE "returned"]

\* a catch block that swallows the error and hands the file on as it is
catchError_passThrough(r, message) ==
    returnResult(r, unprocessedResult(r.file, r.cur))

\* processFile lines 102-105: the catch block
catchError(r, message) ==
    [r EXCEPT !.pc = "failed", !.err = message]

\* a rejection inside processImageForIphone: wrapped at line 157, then caught
\* by processFile or thrown to the direct caller
throwError(r, message) ==
    IF r.entry = "processFile"
    THEN catchError(r, wrapError(message))
    ELSE [r EXCEPT !.pc = "threw", !.err = wrapError(message)]

\* compressImage lines 70-73, 121: the image load is started
compressImage(r, processedFile) ==
    [r EXCEPT !.pc = "compressLoad", !.cur = processedFile,
              !.steps = @ \o <<"compress", "decode">>]

\* processImageForIphone lines 136-155, once convertHeicToJpeg has resolved
afterConvert(r, processedFile) ==
    LET r1 == [r EXCEPT !.steps = Append(@, "convert.end"), !.cur = processedFile]
    IN  IF needsCompression(processedFile, r.maxBytes)
        THEN compressImage(r1, processedFile)
        ELSE returnResult(r1, unprocessedResult(r.file, processedFile))

\* convertHeicToJpeg lines 20-55: early return, or the image load is started
convertHeicToJpeg(r) ==
    IF needsHeicConversion(r.file)
    THEN [r EXCEPT !.pc = "convertLoad", !.steps = @ \o <<"convert", "decode">>]
    ELSE afterConvert([r EXCEPT !.steps = Append(@, "convert")], r.file)

\* processImageForIphone with the two steps in the wrong order: the size test
\* and the compression come before the conversion
processImageForIphone_compressFirst(r) ==
    IF needsCompression(r.file, r.maxBytes)
    THEN compressImage(r, r.file)
    ELSE convertHeicToJpeg(r)

\* processImageForIphone lines 126-134: the first thing it does is the conversion
processImageForIphone(r) == convertHeicToJpeg(r)

\* processFile lines 78-88: validate, throw if invalid, else process
processFile(file) ==
    LET r == [newRun("processFile", file, maxSizeBytes(defaultMaxSizeMB))
                 EXCEPT !.steps = <<"validate">>]
        validation == validateIphoneImage(file)
    IN  IF ~validation.isValid
        THEN catchError(r, validation.error)
        ELSE processImageForIphone(r)

----------------------------------------------------------------------------
(* State machine *)

\* ImageUpload and App as mounted: nothing selected, nothing in progress
UploadIdle ==
    /\ runs = <<>>
    /\ selectedFile = Null
    /\ previewUrl = Null
    /\ isProcessing = FALSE
    /\ error = Null
    /\ appFile = Null
    /\ objectUrls = 0

\* no compressImage call on its own
CompressIdle == image = <<>>

\* the keys the cache is used with
Keys == {"user_preferences", "api_gemini_analysis"}

\* App as mounted, before any selection
AppIdle ==
    /\ selectedTone = <<>>
    /\ isAnalyzing = FALSE
    /\ appResult = <<>>
    /\ appError = <<>>
    /\ analysisStartTime = <<>>
    /\ analyses = <<>>
    /\ resultFrom = 0

\* ReplyResults as mounted
ClipboardIdle ==
    /\ copySuccessId = <<>>
    /\ isCopying = FALSE
    /\ copying = <<>>
    /\ timers = {}
    /\ lastSuccess = <<>>

\* the cache of a first visit: nothing stored, the clock at its origin
CacheIdle ==
    /\ now = 0
    /\ cache = [k \in Keys |-> <<>>]
    /\ storage = [k \in Keys |-> <<>>]
    /\ lastSet = [k \in Keys |-> <<>>]
    /\ returned = <<>>

\* the Gemini client and the performance service before any call
ServiceIdle ==
    /\ apiCalls = <<>>
    /\ network = <<>>
    /\ marks = {}
    /\ metrics = {}

\* the upload flow on its own: no credential, the Gemini client is never called
Init ==
    /\ UploadIdle
    /\ apiKey = Null
    /\ ServiceIdle
    /\ CompressIdle
    /\ CacheIdle
    /\ ClipboardIdle
    /\ AppIdle

\* files that finished calls have handed to their caller so far
ProcessedFiles ==
    {runs[i].result[1].file :
        i \in {k \in 1..Len(runs) : runs[k].pc \in {"done", "returned"}}}

\* what the user can pick: a file of the device, or a file that an earlier
\* processing produced
SelectableFiles == UploadFiles \cup ProcessedFiles

\* a callback of run i has run and left the run in state r2: the run is
\* updated, the object URLs it created are counted, and when processFile's
\* catch was reached the error is shown (line 105) and the finally block
\* clears isProcessing (line 108)
Step(i, r2) ==
    /\ runs' = [runs EXCEPT ![i] = r2]
    /\ objectUrls' = objectUrls + (decodes(r2) - decodes(runs[i]))
    /\ IF r2.pc = "failed"
       THEN error' = r2.err /\ isProcessing' = FALSE
       ELSE UNCHANGED <<error, isProcessing>>
    /\ UNCHANGED <<selectedFile, previewUrl, appFile, appVars, outsideUpload>>

\* processFile called with the file: lines 69-70, then the synchronous part
\* up to the first callback it waits for
StartProcessFile(file) ==
    LET r == processFile(file)
    IN  /\ Len(runs) < MaxUploads
        /\ runs' = Append(runs, r)
        /\ objectUrls' = objectUrls + decodes(r)
        /\ IF r.pc = "failed"
           THEN error' = r.err /\ isProcessing' = FALSE
           ELSE error' = Null /\ isProcessing' = TRUE
        /\ UNCHANGED <<selectedFile, previewUrl, appFile, appVars, outsideUpload>>

\* handleFileInputChange -> handleFileSelect: the file input is disabled while
\* isProcessing or isUploading (App passes isAnalyzing); its picker is opened
\* by handleClick, from the upload area (shown while no file is selected) or
\* from "Try again" (shown with an error)
handleFileInputChange(file) ==
    /\ ~isProcessing
    /\ ~isAnalyzing
    /\ selectedFile = Null \/ error # Null
    /\ StartProcessFile(file)

\* handleDrop -> handleFileSelect: the drop area is shown while no file is
\* selected, also while a file is being processed
handleDrop(file) ==
    /\ selectedFile = Null
    /\ StartProcessFile(file)

\* a caller other than processFile calls processImageForIphone(file, maxSizeMB)
callProcessImageForIphone(file, maxSizeMB) ==
    LET r == processImageForIphone(newRun("direct", file, maxSizeBytes(maxSizeMB)))
    IN  /\ Len(runs) < MaxUploads
        /\ runs' = Append(runs, r)
        /\ objectUrls' = objectUrls + decodes(r)
        /\ UNCHANGED <<selectedFile, previewUrl, isProcessing, error, appFile, appVars, outsideUpload>>

\* convertHeicToJpeg img.onload, lines 30-50: canvas sized, toBlob requested
convertOnLoad(i) ==
    /\ runs[i].pc = "convertLoad"
    /\ Step(i, [runs[i] EXCEPT !.pc = "convertBlob"])

\* convertHeicToJpeg img.onerror, line 53
convertOnError(i) ==
    /\ runs[i].pc = "convertLoad"
    /\ Step(i, throwError(runs[i], <<"Failed to load HEIC image">>))

\* convertHeicToJpeg toBlob callback with a blob, lines 40-46
convertOnBlob(i, blobSize) ==
    /\ runs[i].pc = "convertBlob"
    /\ LET f == runs[i].file
           newFile == File("image/jpeg", replaceHeicExtension(f.ext), blobSize, f.w, f.h)
       IN  Step(i, afterConvert(runs[i], newFile))

\* convertHeicToJpeg toBlob callback without a blob, line 48
convertOnNoBlob(i) ==
    /\ runs[i].pc = "convertBlob"
    /\ Step(i, throwError(runs[i], <<"Failed to convert HEIC image">>))

\* compressImage img.onload, lines 75-96: dimensions computed, canvas sized,
\* toBlob requested
compressOnLoad(i) ==
    /\ runs[i].pc = "compressLoad"
    /\ Step(i, [runs[i] EXCEPT
                  !.pc = "compressBlob",
                  !.dims = newDimensions(runs[i].cur.w, runs[i].cur.h, maxWidth, maxHeight)])

\* compressImage img.onerror, line 120
compressOnError(i) ==
    /\ runs[i].pc = "compressLoad"
    /\ Step(i, throwError(runs[i], <<"Failed to load image for compression">>))

\* the canvas of run i has pixels (toBlob gives null for an empty canvas)
canvasHasPixels(r) ==
    /\ canvasSize(r.dims.wNum, r.dims.wDen) > 0
    /\ canvasSize(r.dims.hNum, r.dims.hDen) > 0

\* compressImage toBlob callback with a blob, lines 100-113
compressOnBlob(i, blobSize) ==
    /\ runs[i].pc = "compressBlob"
    /\ canvasHasPixels(runs[i])
    /\ LET r == runs[i]
           processedFile == File("image/jpeg", r.cur.ext, blobSize,
                                 canvasSize(r.dims.wNum, r.dims.wDen),
                                 canvasSize(r.dims.hNum, r.dims.hDen))
           res == [file |-> processedFile,
                   originalSize |-> r.cur.size,
                   processedSize |-> blobSize,
                   width |-> mathRound(r.dims.wNum, r.dims.wDen),
                   height |-> mathRound(r.dims.hNum, r.dims.hDen),
                   format |-> "image/jpeg"]
       IN  Step(i, returnResult([r EXCEPT !.steps = Append(@, "compress.end")], res))

\* compressImage toBlob callback without a blob, line 115
compressOnNoBlob(i) ==
    /\ runs[i].pc = "compressBlob"
    /\ Step(i, throwError(runs[i], <<"Failed to compress image">>))

\* App.handleImageSelect, the onImageSelect of ImageUpload: App lines 157-166
handleImageSelect(file) ==
    /\ appFile' = Some(file)
    /\ appError' = Null
    /\ appResult' = Null
    /\ resultFrom' = 0
    /\ UNCHANGED <<selectedTone, isAnalyzing, analysisStartTime, analyses>>

\* createImagePreview reader.onload, then processFile lines 96-98 and 108
previewOnLoad(i) ==
    /\ runs[i].pc = "preview"
    /\ LET processedResult == runs[i].result[1]
       IN  /\ runs' = [runs EXCEPT ![i] = [@ EXCEPT !.pc = "done", !.delivered = TRUE]]
           /\ previewUrl' = Some(createImagePreview(processedResult.file))
           /\ selectedFile' = Some(processedResult.file)
           /\ handleImageSelect(processedResult.file)
    /\ isProcessing' = FALSE
    /\ UNCHANGED <<error, objectUrls, outsideUpload>>

\* createImagePreview reader.onerror, then the catch of processFile
previewOnError(i) ==
    /\ runs[i].pc = "preview"
    /\ Step(i, catchError(runs[i], <<"Failed to create image preview">>))

\* handleRemove: the Remove button is shown with the selected file
handleRemove ==
    /\ selectedFile # Null
    /\ selectedFile' = Null
    /\ previewUrl' = Null
    /\ error' = Null
    /\ UNCHANGED <<runs, isProcessing, appFile, objectUrls, appVars, outsideUpload>>

Next ==
    \/ \E file \in SelectableFiles : handleFileInputChange(file)
    \/ \E file \in SelectableFiles : handleDrop(file)
    \/ \E a \in DirectArgs : callProcessImageForIphone(a[1], a[2])
    \/ \E i \in 1..Len(runs) : convertOnLoad(i)
    \/ \E i \in 1..Len(runs) : convertOnError(i)
    \/ \E i \in 1..Len(runs), b \in ConvertBlobSizes : convertOnBlob(i, b)
    \/ \E i \in 1..Len(runs) : convertOnNoBlob(i)
    \/ \E i \in 1..Len(runs) : compressOnLoad(i)
    \/ \E i \in 1..Len(runs) : compressOnError(i)
    \/ \E i \in 1..Len(runs), b \in CompressBlobSizes : compressOnBlob(i, b)
    \/ \E i \in 1..Len(runs) : compressOnNoBlob(i)
    \/ \E i \in 1..Len(runs) : previewOnLoad(i)
    \/ \E i \in 1..Len(runs) : previewOnError(i)
    \/ handleRemove

Spec == Init /\ [][Next]_vars

----------------------------------------------------------------------------
(* Properties *)

Runs == {runs[i] : i \in 1..Len(runs)}
UploadRuns == {r \in Runs : r.entry = "processFile"}

\* the steps of a run without the decode marks
calls(r) == SelectSeq(r.steps, LAMBDA s : s # "decode")

started(r, step) == \E k \in 1..Len(r.steps) : r.steps[k] = step

\* the step started an image decode (an object URL was created in it)
decodedIn(r, step) ==
    \E k \in 1..(Len(r.steps) - 1) : r.steps[k] = step /\ r.steps[k + 1] = "decode"

\* processFile stopped at the validation
rejectedByValidate(r) ==
    r.entry = "processFile" /\ r.pc = "failed" /\ r.steps = <<"validate">>

toLowerCase(ext) ==
    CASE ext = "HEIC" -> "heic"
      [] ext = "HEIF" -> "heif"
      [] OTHER -> ext

allowedExtensions == {"jpg", "jpeg", "png", "heic", "heif"}

longer(w, h) == IF w > h THEN w ELSE h
shorter(w, h) == IF w > h THEN h ELSE w

\* C1: Validate rejects a file exactly when its size exceeds 50 MB or both
\* its mime-type and its filename extension are outside the supported sets;
\* an empty mime-type with a .heic / .heif name is accepted.
C1_RejectsExactlyWhen ==
    \A r \in UploadRuns :
        rejectedByValidate(r) <=>
            \/ r.file.size > maxSize
            \/ /\ r.file.type \notin allowedTypes
               /\ toLowerCase(r.file.ext) \notin allowedExtensions

\* C2: ConvertIfProprietary converts a file to JPEG whenever it is HEIC/HEIF
\* by mime-type or by filename extension, and returns every other file
\* unchanged.
C2_ConvertsByTypeOrExtension ==
    \A r \in Runs :
        started(r, "convert.end") =>
            IF \/ includesHeicOrHeif(r.file.type)
               \/ toLowerCase(r.file.ext) \in {"heic", "heif"}
            THEN decodedIn(r, "convert") /\ r.cur.type = "image/jpeg"
            ELSE ~decodedIn(r, "convert") /\ r.cur = r.file

\* C3: for every file larger than 50 MB the upload flow ends in a validation
\* rejection and starts no decode step (conversion, compression, dimension
\* query), so no object URL is created for it and no decode error can occur.
C3_OversizedRejectedBeforeDecode ==
    \A r \in UploadRuns :
        r.file.size > maxSize =>
            /\ rejectedByValidate(r)
            /\ r.err = validateIphoneImage(r.file).error
            /\ r.err # Null
            /\ decodes(r) = 0
            /\ r.result = Null
            /\ ~r.delivered

C3_Witness ==
    \E r \in UploadRuns :
        /\ r.file.size > maxSize
        /\ r.file.type \in allowedTypes
        /\ r.pc = "failed"
        /\ error = r.err

\* the order in which the upload flow calls the pipeline steps
StepOrder == <<"validate", "convert", "convert.end", "compress", "compress.end">>

\* C4 as stated: every run of ProcessForTransmission validates first, so
\* for a file Validate rejects, also in a direct call, neither conversion
\* nor compression begins and the call fails.
C4_ProcessValidatesFirst ==
    \A r \in Runs :
        /\ started(r, "convert") => r.steps[1] = "validate"
        /\ ~validateIphoneImage(r.file).isValid =>
              /\ ~started(r, "convert")
              /\ ~started(r, "compress")
              /\ r.pc \in {"failed", "threw"}

\* C4 amended: every run of the upload flow (processFile) executes Validate,
\* then ConvertIfProprietary, then - only when the converted file exceeds
\* maxBytes - the compression, in that order, each step starting after the
\* previous one has completed, and stops at Validate for a file it rejects;
\* processImageForIphone itself runs conversion then compression and does
\* not validate.
C4_StepsInOrder ==
    \A r \in Runs :
        LET c == calls(r)
            off == IF r.entry = "processFile" THEN 0 ELSE 1
        IN  /\ Len(c) >= 1
            /\ Len(c) + off <= Len(StepOrder)
            /\ \A k \in 1..Len(c) : c[k] = StepOrder[k + off]
            /\ r.entry = "processFile" /\ ~validateIphoneImage(r.file).isValid
                  => c = <<"validate">>
            /\ r.pc \in {"convertLoad", "convertBlob"} => c[Len(c)] = "convert"
            /\ r.pc \in {"compressLoad", "compressBlob"} => c[Len(c)] = "compress"
            /\ r.pc \in {"preview", "done", "returned"}
                  => c[Len(c)] \in {"convert.end", "compress.end"}
            /\ started(r, "convert.end")
                  => (started(r, "compress") <=> r.cur.size > r.maxBytes)

C4_Witness ==
    \E r \in UploadRuns : r.pc = "done" /\ calls(r) = StepOrder

\* C5: for every input of a supported raw format within the 50 MB ceiling,
\* the file ProcessForTransmission returns has mime-type JPEG or PNG and a
\* byte size of at most maxSizeMB * 1024 * 1024.
C5_OutputTypeAndSize ==
    \A r \in Runs :
        (r.result # Null /\ r.file.type \in allowedTypes /\ r.file.size <= maxSize)
            => /\ r.result[1].file.type \in {"image/jpeg", "image/jpg", "image/png"}
               /\ r.result[1].file.size <= r.maxBytes

abs(n) == IF n < 0 THEN -n ELSE n

\* the picture (w2, h2) is the picture (w, h) with its longer side set to
\* 1920 and its other side scaled in proportion, within one pixel
clampedTo1920(w, h, w2, h2) ==
    IF w > h
    THEN w2 = maxWidth /\ abs(h2 * w - maxWidth * h) <= w
    ELSE h2 = maxHeight /\ abs(w2 * h - maxHeight * w) <= h

\* C6 as stated: for every input whose longer pixel dimension exceeds 1920
\* after conversion, whatever its byte size, the output picture has its
\* longer side at 1920 and the aspect ratio of the input.
C6_LongerSideClamped ==
    \A r \in Runs :
        (r.result # Null /\ longer(r.cur.w, r.cur.h) > maxWidth)
            => clampedTo1920(r.cur.w, r.cur.h,
                             r.result[1].file.w, r.result[1].file.h)

\* C6 amended: for every input whose byte size after conversion exceeds
\* maxSizeMB * 1024 * 1024 and whose longer pixel dimension exceeds 1920,
\* the output picture and the reported width and height have the longer
\* side at 1920 and the other side in proportion within one pixel; an input
\* of at most maxSizeMB * 1024 * 1024 keeps its pixel dimensions.
C6_OversizedLongerSideClamped ==
    \A r \in Runs :
        r.result # Null =>
            LET out == r.result[1]
            IN  IF r.cur.size > r.maxBytes
                THEN longer(r.cur.w, r.cur.h) > maxWidth =>
                        /\ clampedTo1920(r.cur.w, r.cur.h, out.file.w, out.file.h)
                        /\ clampedTo1920(r.cur.w, r.cur.h, out.width, out.height)
                ELSE out.file.w = r.cur.w /\ out.file.h = r.cur.h

C6_Witness ==
    \E r \in Runs :
        /\ r.result # Null
        /\ r.cur.size > r.maxBytes
        /\ r.cur.h > r.cur.w
        /\ r.cur.h > maxHeight
        /\ r.result[1].height = maxHeight
        /\ r.result[1].width < r.cur.w

\* C7: ProcessForTransmission run on a file that an earlier run returned
\* (within the size ceiling, JPEG/PNG, within 1920 x 1920) returns the same
\* mime-type, the same reported width and height and the same byte size.
C7_Idempotent ==
    \A i, j \in 1..Len(runs) :
        (/\ i < j
         /\ runs[i].result # Null
         /\ runs[j].result # Null
         /\ runs[j].file = runs[i].result[1].file
         /\ runs[j].maxBytes = runs[i].maxBytes
         /\ runs[j].file.size <= runs[j].maxBytes
         /\ runs[j].file.type \in {"image/jpeg", "image/png"}
         /\ runs[j].file.w <= maxWidth
         /\ runs[j].file.h <= maxHeight)
            => /\ runs[j].result[1].file.type = runs[i].result[1].file.type
               /\ runs[j].result[1].file.size = runs[i].result[1].file.size
               /\ runs[j].result[1].width = runs[i].result[1].width
               /\ runs[j].result[1].height = runs[i].result[1].height

\* C8: when the file's size is at most maxBytes the pipeline returns the
\* same file with its natural width and height.
C8_NoOpReportsNaturalDimensions ==
    \A r \in Runs :
        (r.result # Null /\ r.cur.size <= r.maxBytes)
            => /\ r.result[1].file = r.cur
               /\ r.result[1].width = r.cur.w
               /\ r.result[1].height = r.cur.h

\* C9: every object URL a decode operation created is released when the
\* operation finishes; once no upload is in progress no object URL is left.
C9_ObjectUrlsReleased ==
    (\A r \in Runs : r.pc \notin InFlight) => objectUrls = 0

noRepeat(seq) == \A k, l \in 1..Len(seq) : seq[k] = seq[l] => k = l

C10_FailureState ==
    \A r \in UploadRuns :
        /\ ~validateIphoneImage(r.file).isValid => r.pc = "failed"
        /\ r.pc = "failed" =>
              /\ r.err # Null
              /\ ~r.delivered
              /\ noRepeat(calls(r))
        /\ r.delivered => r.pc = "done" /\ r.result # Null
        /\ (r.result # Null /\ needsHeicConversion(r.file))
              => r.result[1].file.type = "image/jpeg"

C10_FailureStep ==
    /\ \A i \in 1..Len(runs) :
          runs[i].pc \in {"failed", "threw"} => runs'[i] = runs[i]
    /\ \A i \in 1..Len(runs') :
          (runs'[i].pc = "failed" /\ (i > Len(runs) \/ runs[i].pc # "failed"))
             => /\ error' = runs'[i].err
                /\ error' # Null
                /\ ~isProcessing'
                /\ appFile' = appFile
                /\ selectedFile' = selectedFile

\* C10: every pipeline failure (validation rejection, HEIC decode failure,
\* re-encode failure) is terminal for its upload attempt: the failed run
\* never takes another step and has run no step twice, its file is not
\* handed to onImageSelect (an undecodable HEIC file is never passed through),
\* and the step that fails leaves the error message set.
C10_FailureIsTerminal == []C10_FailureState /\ [][C10_FailureStep]_vars

C10_Witness ==
    \E r \in UploadRuns :
        /\ r.pc = "failed"
        /\ r.err = wrapError(<<"Failed to load HEIC image">>)
        /\ error = r.err
        /\ ~r.delivered

----------------------------------------------------------------------------
(* Gemini client (services/geminiService.ts): inputs                        *)
(*                                                                         *)
(* A response text is a sequence of tokens, each token a sequence of        *)
(* strings: the punctuation <<"{">> <<"}">> <<"[">> <<"]">>, a word of      *)
(* prose <<"word", w>>, a member with a string value <<"field", k, v>>, and *)
(* the name of a member whose value follows <<"key", k>>.                   *)

\* total number of calls of public GeminiService methods in a behaviour
MaxCalls == 1

\* enum ReplyTone
ReplyTone == {"FRIENDLY", "CASUAL", "FORMAL", "PROFESSIONAL", "FLIRTY", "WITTY"}

\* process.env.REACT_APP_GEMINI_API_KEY: undefined, empty, or a key
EnvKeys == {Null, Some(""), Some("AIza-key")}

\* HTTP statuses the endpoint answers with
Statuses == {200, 201, 400, 401, 404, 429, 500, 503}

LB == <<"{">>
RB == <<"}">>
LS == <<"[">>
RS == <<"]">>
word(w) == <<"word", w>>
field(k, v) == <<"field", k, v>>
key(k) == <<"key", k>>

\* JSON text of an object with string members and no nested value
flatObject(members) == <<LB>> \o members \o <<RB>>

\* the concatenation of the token sequences of seqs
RECURSIVE concat(_)
concat(seqs) == IF seqs = <<>> THEN <<>> ELSE Head(seqs) \o concat(Tail(seqs))

\* JSON text of an object with string members and a replies array of objects
replyObject(members, replyMembers) ==
    <<LB>> \o members \o <<key("replies"), LS>>
           \o concat([n \in 1..Len(replyMembers) |-> flatObject(replyMembers[n])])
           \o <<RS, RB>>

\* the content of a response object: its string members and the string
\* members of each element of its replies array
object(members, replyMembers) == [members |-> members, replyMembers |-> replyMembers]

\* the JSON text of the object o
textOf(o) == replyObject(o.members, o.replyMembers)

\* the example of a well-formed response: one reply with id and text
WellFormedObject ==
    object(<<field("context", "c")>>,
           <<(<<field("id", "1"), field("text", "hi")>>)>>)

\* a response in the OUTPUT FORMAT of the prompt (lines 138-160)
OutputFormatObject ==
    object(<<field("context", "plans for tonight"), field("lastMessage", "you in?"),
             field("relationship", "friends"), field("mood", "playful")>>,
           <<(<<field("id", "1"), field("text", "first"), field("reasoning", "r1")>>),
             (<<field("id", "2"), field("text", "second"), field("reasoning", "r2")>>),
             (<<field("id", "3"), field("text", "third"), field("reasoning", "r3")>>)>>)

\* a reply that names a tone, a reply without id, a reply without text
MixedRepliesObject ==
    object(<<field("context", "c")>>,
           <<(<<field("text", "a"), field("tone", "WITTY")>>),
             (<<field("id", "x"), field("text", "b")>>),
             (<<field("reasoning", "r")>>)>>)

\* a reply that carries the id the next one gets as positional fallback
FallbackClashObject ==
    object(<<field("context", "c")>>,
           <<(<<field("id", "reply_2"), field("text", "a")>>),
             (<<field("text", "b")>>)>>)

\* the model under-produces: no reply at all
NoRepliesObject == object(<<field("context", "c")>>, <<>>)

\* the model over-produces: four replies
FourRepliesObject ==
    object(<<field("context", "c")>>,
           <<(<<field("text", "a")>>), (<<field("text", "b")>>),
             (<<field("text", "c")>>), (<<field("text", "d")>>)>>)

\* the response objects with a context and a replies array
Objects ==
    {WellFormedObject, OutputFormatObject, MixedRepliesObject,
     FallbackClashObject, NoRepliesObject, FourRepliesObject}

\* prose around the object, without braces and with braces
ProseBefore == <<word("Sure!"), word("Here")>>
ProseAfter == <<word("Hope"), word("that"), word("helps.")>>
BracedProse == <<word("Use"), LB, word("name"), RB, word("freely.")>>

\* the prose a response can put before and after its object
Proses == {<<>>, ProseBefore, ProseAfter, BracedProse}

ResponseTexts ==
    {textOf(o) : o \in Objects}
    \cup {ProseBefore \o textOf(WellFormedObject) \o ProseAfter,
          textOf(WellFormedObject) \o BracedProse,
          BracedProse \o textOf(WellFormedObject),
          ProseBefore \o ProseAfter,                                       \* no object
          <<LB, word("oops")>>,                                            \* no closing brace
          replyObject(<<field("context", "")>>, <<(<<field("text", "a")>>)>>),
          flatObject(<<field("context", "c"), field("replies", "none")>>),  \* replies not an array
          flatObject(<<field("context", "c")>>)}                            \* no replies member

\* the JSON body with one candidate whose first part carries the text
dataWithText(text) ==
    [candidates |-> Some(<<[content |-> Some([parts |-> <<[text |-> Some(text)]>>])]>>)]

\* what response.json() gives for a success response: Null when the body is
\* not JSON (the promise rejects), else the parsed data
Bodies ==
    {Null,
     Some([candidates |-> Null]),
     Some([candidates |-> Some(<<>>)]),
     Some([candidates |-> Some(<<[content |-> Null]>>)]),
     Some([candidates |-> Some(<<[content |-> Some([parts |-> <<>>])]>>)]),
     Some([candidates |-> Some(<<[content |-> Some([parts |-> <<[text |-> Null]>>])]>>)])}
    \cup {Some(dataWithText(t)) : t \in ResponseTexts}

\* what response.json() gives for an error response: not JSON, or error data
ErrorBodies == {Null, Some("error")}

----------------------------------------------------------------------------
(* Gemini client: pure parts *)

\* JavaScript truthiness of an optional string: undefined, null and '' are falsy
truthy(v) == v # Null /\ v # Some("")

\* a || d for an optional string a
orElse(v, d) == IF truthy(v) THEN v[1] ELSE d

\* constructor, line 11: process.env.REACT_APP_GEMINI_API_KEY || null
GeminiService(envKey) == IF truthy(envKey) THEN envKey ELSE Null

\* isApiKeyConfigured, line 25: !!this.apiKey
isApiKeyConfigured(k) == truthy(k)

\* Response.ok: the status is in the range 200-299
responseOk(status) == status >= 200 /\ status <= 299

\* an Error object with the message / a rejection value that is no Error
Error(message) == [isError |-> TRUE, message |-> message]
NonError == [isError |-> FALSE, message |-> "ProgressEvent"]

\* the classification with 429 reported as an invalid key
httpError_429AsInvalidKey(status) ==
    IF status = 400
    THEN Error("Invalid request. Please check your image and try again.")
    ELSE IF status = 401 \/ status = 429
    THEN Error("Invalid API key. Please check your configuration.")
    ELSE IF status >= 500
    THEN Error("Server error. Please try again later.")
    ELSE Error("API request failed (" \o ToString(status) \o "). Please try again.")

\* analyzeImageAndGenerateReplies lines 300-310: the error for a response
\* that is not ok
httpError(status) ==
    IF status = 400
    THEN Error("Invalid request. Please check your image and try again.")
    ELSE IF status = 401
    THEN Error("Invalid API key. Please check your configuration.")
    ELSE IF status = 429
    THEN Error("Rate limit exceeded. Please wait a moment and try again.")
    ELSE IF status >= 500
    THEN Error("Server error. Please try again later.")
    ELSE Error("API request failed (" \o ToString(status) \o "). Please try again.")

\* getToneGuidelines lines 71-113: the table of guidelines, for each tone
\* the four lines of style guidance and the example phrases (the emoji of
\* the first FLIRTY example is left out)
guidelines ==
    [tone \in ReplyTone |->
        CASE tone = "FRIENDLY" ->
                [style |-> <<"Warm, approachable, and positive",
                             "Use friendly language and expressions",
                             "Shows genuine interest and care",
                             "Includes light humor when appropriate">>,
                 examples |-> <<"That sounds awesome!", "Hope you're doing well",
                                "Would love to hear more">>]
          [] tone = "CASUAL" ->
                [style |-> <<"Relaxed, informal, everyday language",
                             "Use contractions and casual expressions",
                             "Natural, conversational flow",
                             "Not too formal or overly enthusiastic">>,
                 examples |-> <<"Yeah totally", "Sounds good", "What's up with that?">>]
          [] tone = "FORMAL" ->
                [style |-> <<"Professional, polite, and respectful",
                             "Proper grammar and complete sentences",
                             "Courteous but not overly familiar",
                             "Appropriate for workplace or formal relationships">>,
                 examples |-> <<"I would be happy to help", "Thank you for reaching out",
                                "Please let me know">>]
          [] tone = "PROFESSIONAL" ->
                [style |-> <<"Business-appropriate, competent, reliable",
                             "Clear communication with purpose",
                             "Respectful and solution-oriented",
                             "Maintains professional boundaries">>,
                 examples |-> <<"I'll look into that", "Let's schedule a time to discuss",
                                "Thanks for the update">>]
          [] tone = "FLIRTY" ->
                [style |-> <<"Playful, charming, with subtle romantic interest",
                             "Light teasing and compliments",
                             "Creates intrigue and maintains conversation",
                             "Appropriate level based on relationship stage">>,
                 examples |-> <<"You're trouble", "Miss me already?",
                                "That's what I like to hear">>]
          [] tone = "WITTY" ->
                [style |-> <<"Clever, humorous, and entertaining",
                             "Quick comebacks and smart observations",
                             "Shows personality and intelligence",
                             "Light sarcasm when appropriate">>,
                 examples |-> <<"Well that escalated quickly", "Plot twist!",
                                "You've got a point there">>]]

\* getToneGuidelines answering with the CASUAL guidelines for every tone
getToneGuidelines_casualForAll(tone) == guidelines["CASUAL"]

\* getToneGuidelines line 115: guidelines[tone] || guidelines[ReplyTone.CASUAL]
getToneGuidelines(tone) ==
    IF tone \in ReplyTone THEN guidelines[tone] ELSE guidelines["CASUAL"]

\* tone.toLowerCase()
toneToLowerCase(tone) ==
    CASE tone = "FRIENDLY" -> "friendly"
      [] tone = "CASUAL" -> "casual"
      [] tone = "FORMAL" -> "formal"
      [] tone = "PROFESSIONAL" -> "professional"
      [] tone = "FLIRTY" -> "flirty"
      [] tone = "WITTY" -> "witty"

\* createChatAnalysisPrompt: the parts of the prompt that depend on the tone,
\* and the members the OUTPUT FORMAT asks for
createChatAnalysisPrompt(tone) ==
    [tone |-> toneToLowerCase(tone),
     toneGuidelines |-> getToneGuidelines(tone),
     members |-> <<"context", "lastMessage", "relationship", "mood", "replies">>,
     replyMembers |-> <<"id", "text", "reasoning">>]

\* responseText.match(/\{[\s\S]*\}/): the span from the first "{" to the last
\* "}" of the text (the star is greedy), null when no "}" follows a "{"
jsonMatch(responseText) ==
    LET opens == {n \in 1..Len(responseText) : responseText[n] = LB}
        closes == {n \in 1..Len(responseText) : responseText[n] = RB}
        first == CHOOSE n \in opens : \A m \in opens : n <= m
        last == CHOOSE n \in closes : \A m \in closes : n >= m
    IN  IF opens # {} /\ closes # {} /\ first < last
        THEN Some(SubSeq(responseText, first, last))
        ELSE Null

isField(t) == Len(t) = 3 /\ t[1] = "field"

\* the string members from position pos on: [pos, members], pos the first
\* position that holds no string member
RECURSIVE parseMembers(_, _, _)
parseMembers(toks, pos, acc) ==
    IF pos <= Len(toks) /\ isField(toks[pos])
    THEN parseMembers(toks, pos + 1, Append(acc, <<toks[pos][2], toks[pos][3]>>))
    ELSE [pos |-> pos, members |-> acc]

SyntaxError == [ok |-> FALSE, pos |-> 0, value |-> <<>>]

\* an object with string members only, starting at pos
parseFlatObject(toks, pos) ==
    IF pos <= Len(toks) /\ toks[pos] = LB
    THEN LET m == parseMembers(toks, pos + 1, <<>>)
         IN  IF m.pos <= Len(toks) /\ toks[m.pos] = RB
             THEN [ok |-> TRUE, pos |-> m.pos + 1, value |-> m.members]
             ELSE SyntaxError
    ELSE SyntaxError

\* the elements of an array, from pos (after "[") up to its "]"
RECURSIVE parseElements(_, _, _)
parseElements(toks, pos, acc) ==
    IF pos <= Len(toks) /\ toks[pos] = RS
    THEN [ok |-> TRUE, pos |-> pos + 1, value |-> acc]
    ELSE LET o == parseFlatObject(toks, pos)
         IN  IF o.ok THEN parseElements(toks, o.pos, Append(acc, o.value))
             ELSE SyntaxError

\* the members of the top-level object, from pos (after "{") up to its "}":
\* string members, and a member replies whose value is an array of objects
RECURSIVE parseObject(_, _, _)
parseObject(toks, pos, acc) ==
    IF pos > Len(toks) THEN SyntaxError
    ELSE IF toks[pos] = RB
    THEN [ok |-> TRUE, pos |-> pos + 1, value |-> acc]
    ELSE IF isField(toks[pos])
    THEN parseObject(toks, pos + 1,
             [acc EXCEPT !.members = Append(@, <<toks[pos][2], toks[pos][3]>>)])
    ELSE IF toks[pos] = key("replies") /\ pos < Len(toks) /\ toks[pos + 1] = LS
    THEN LET a == parseElements(toks, pos + 2, <<>>)
         IN  IF a.ok
             THEN parseObject(toks, a.pos,
                      [acc EXCEPT !.isArray = TRUE, !.replies = a.value])
             ELSE SyntaxError
    ELSE SyntaxError

\* JSON.parse of a span: Null for a SyntaxError (anything after the value
\* is one), else the object [members, isArray, replies], where isArray says
\* that the member replies is an array and replies holds its elements
JSONparse(span) ==
    LET o == parseObject(span, 2, [members |-> <<>>, isArray |-> FALSE, replies |-> <<>>])
    IN  IF span # <<>> /\ span[1] = LB /\ o.ok /\ o.pos = Len(span) + 1
        THEN Some(o.value)
        ELSE Null

\* object.name for a string member: Null (undefined) when there is none,
\* the last one when the name is repeated
get(members, name) ==
    LET at == {n \in 1..Len(members) : members[n][1] = name}
    IN  IF at = {} THEN Null
        ELSE Some(members[CHOOSE n \in at : \A m \in at : n >= m][2])

\* `reply_${index + 1}`, index counted from 0
fallbackId(index) == "reply_" \o ToString(index + 1)

\* the callback of parsed.replies.map that drops the text
mapReply_noText(reply, index) ==
    [id |-> orElse(get(reply, "id"), fallbackId(index)),
     text |-> "",
     tone |-> orElse(get(reply, "tone"), "CASUAL"),
     reasoning |-> orElse(get(reply, "reasoning"), "")]

\* parseGeminiResponse lines 229-235: the callback of parsed.replies.map
\* (timestamp: new Date() is left out)
mapReply(reply, index) ==
    [id |-> orElse(get(reply, "id"), fallbackId(index)),
     text |-> orElse(get(reply, "text"), ""),
     tone |-> orElse(get(reply, "tone"), "CASUAL"),
     reasoning |-> orElse(get(reply, "reasoning"), "")]

\* !parsed.context || !parsed.replies || !Array.isArray(parsed.replies):
\* an array is truthy also when it is empty
invalidStructure(parsed) ==
    \/ ~truthy(get(parsed.members, "context"))
    \/ ~(parsed.isArray \/ truthy(get(parsed.members, "replies")))
    \/ ~parsed.isArray

\* parseGeminiResponse lines 237-245 (timestamp and screenshotUrl left out)
analysisResult(parsed) ==
    [context |-> get(parsed.members, "context")[1],
     replies |-> [n \in 1..Len(parsed.replies) |-> mapReply(parsed.replies[n], n - 1)],
     lastMessage |-> orElse(get(parsed.members, "lastMessage"), ""),
     relationship |-> orElse(get(parsed.members, "relationship"), "unknown"),
     mood |-> orElse(get(parsed.members, "mood"), "neutral")]

ParseFailure ==
    [ok |-> FALSE, result |-> Null,
     error |-> Error("Failed to parse AI response. Please try again.")]

\* the body of parseGeminiResponse, answering a failure with onFailure:
\* responseText is Null when the part has no text (the call of match then
\* throws inside the try)
parseOr(responseText, onFailure) ==
    IF responseText = Null THEN onFailure
    ELSE LET match == jsonMatch(responseText[1])
         IN  IF match = Null THEN onFailure
             ELSE LET parsed == JSONparse(match[1])
                  IN  IF parsed = Null THEN onFailure
                      ELSE IF invalidStructure(parsed[1]) THEN onFailure
                      ELSE [ok |-> TRUE,
                            result |-> Some(analysisResult(parsed[1])),
                            error |-> Error("")]

\* a parser that answers a failure with an empty result instead of an error
parseGeminiResponse_emptyResult(responseText) ==
    parseOr(responseText,
            [ok |-> TRUE,
             result |-> Some([context |-> "", replies |-> <<>>, lastMessage |-> "",
                              relationship |-> "unknown", mood |-> "neutral"]),
             error |-> Error("")])

\* parseGeminiResponse: every error thrown in the try is replaced by the
\* one of line 248
parseGeminiResponse(responseText) == parseOr(responseText, ParseFailure)

----------------------------------------------------------------------------
(* One call of a public GeminiService method.  pc is the promise the call   *)
(* is suspended on ("encoding": convertImageToBase64, "fetching": fetch,    *)
(* "errorBody" / "body": response.json()) or how it settled ("resolved",    *)
(* "rejected").  fetches counts the requests the call has sent, tracked     *)
(* says that the call runs inside performanceService.trackApiCall, status   *)
(* and body are the response as far as it has arrived.                      *)

newCall(op, tone) ==
    [op |-> op, tone |-> tone, pc |-> "resolved", fetches |-> 0, tracked |-> FALSE,
     status |-> Null, body |-> Null, result |-> Null, error |-> Null,
     returned |-> Null,
     startTime |-> now, duration |-> Null, measured |-> Null]

Settled == {"resolved", "rejected"}

\* analyzeImageAndGenerateReplies without the test of the key
analyzeImageAndGenerateReplies_noKeyTest(k, tone) ==
    [newCall("analyze", tone) EXCEPT !.pc = "encoding", !.tracked = TRUE]

\* analyzeImageAndGenerateReplies lines 257-265: the test of the key, then
\* trackApiCall calls apiCall, which waits for convertImageToBase64
analyzeImageAndGenerateReplies(k, tone) ==
    IF ~truthy(k)
    THEN [newCall("analyze", tone) EXCEPT
             !.pc = "rejected", !.error = Some("Gemini API key not configured")]
    ELSE [newCall("analyze", tone) EXCEPT !.pc = "encoding", !.tracked = TRUE]

\* lines 268-294: prompt and payload built, the request sent
sendRequest(c) == [c EXCEPT !.pc = "fetching", !.fetches = @ + 1]

\* a catch block that sends the request again after a failed round trip
analyzeCatch_retry(c, e) ==
    IF c.fetches = 1
    THEN sendRequest([c EXCEPT !.status = Null, !.body = Null])
    ELSE [c EXCEPT !.pc = "rejected", !.error = Some(e.message)]

\* lines 324-330: the catch block of apiCall rethrows an Error and replaces
\* every other value; trackApiCall rethrows what it catches
analyzeCatch(c, e) ==
    [c EXCEPT !.pc = "rejected",
              !.error = Some(IF e.isError THEN e.message
                             ELSE "Failed to analyze image. Please try again.")]

\* line 296: the response has arrived; its body is read next
receiveResponse(c, status) ==
    [c EXCEPT !.status = Some(status),
              !.pc = IF responseOk(status) THEN "body" ELSE "errorBody"]

\* lines 313-322: the body of a response that is ok has been read
readResponse(c, body) ==
    LET c1 == [c EXCEPT !.body = Some(body)]
    IN  IF body = Null
        THEN analyzeCatch(c1, Error("SyntaxError: Unexpected end of JSON input"))
        ELSE LET candidates == body[1].candidates
             IN  IF \/ candidates = Null
                    \/ candidates[1] = <<>>
                    \/ candidates[1][1].content = Null
                 THEN analyzeCatch(c1, Error("Invalid response from AI service"))
                 ELSE LET parts == candidates[1][1].content[1].parts
                      IN  IF parts = <<>>
                          THEN analyzeCatch(c1,
                                   Error("TypeError: Cannot read properties of undefined"))
                          ELSE LET p == parseGeminiResponse(parts[1].text)
                               IN  IF p.ok
                                   THEN [c1 EXCEPT !.pc = "resolved", !.result = p.result]
                                   ELSE analyzeCatch(c1, p.error)

\* testConnection lines 30-45: false without a key, else the request is sent
testConnection(k) ==
    IF ~truthy(k)
    THEN [newCall("testConnection", "") EXCEPT !.returned = Some(FALSE)]
    ELSE sendRequest(newCall("testConnection", ""))

\* testConnection line 47: return response.ok
testConnectionResponse(c, status) ==
    [c EXCEPT !.pc = "resolved", !.status = Some(status),
              !.returned = Some(responseOk(status))]

\* a catch block that rethrows
testConnectionCatch_rethrow(c) ==
    [c EXCEPT !.pc = "rejected", !.error = Some("TypeError: Failed to fetch")]

\* testConnection lines 48-51: the catch block returns false
testConnectionCatch(c) ==
    [c EXCEPT !.pc = "resolved", !.returned = Some(FALSE)]

\* the body of the POST request of a call
payload(c) ==
    IF c.op = "analyze"
    THEN [inline_data |-> TRUE, text |-> createChatAnalysisPrompt(c.tone)]
    ELSE [inline_data |-> FALSE, text |-> <<"Hello, this is a test message.">>]

\* the requests call i sends when it moves from c to c2
requestsSent(i, c, c2) ==
    [n \in 1..(c2.fetches - c.fetches) |-> [call |-> i, body |-> payload(c2)]]

\* PerformanceService.mark lines 63-67: performance.mark(name) adds an entry
\* with the name and the time to the performance timeline
mark(name) == {<<name, now>>}

\* trackApiCall(apiCall, 'gemini_analysis') line 123: the mark at the start
marksAtStart(c) ==
    IF c.tracked THEN mark("gemini_analysis_start") ELSE {}

\* trackApiCall line 127: the mark when apiCall has resolved
marksWhenSettled(c, c2) ==
    IF c2.tracked /\ c.pc \notin Settled /\ c2.pc = "resolved"
    THEN mark("gemini_analysis_end") ELSE {}

\* the time of the most recent entry with the name in the timeline
latestMark(entries, name) ==
    LET times == {e[2] : e \in {m \in entries : m[1] = name}}
    IN  CHOOSE t \in times : \A u \in times : u <= t

\* PerformanceService.measure lines 70-79: performance.measure(name,
\* startMark, endMark) takes the most recent mark of each name; its duration
measure(entries, startMark, endMark) ==
    latestMark(entries, endMark) - latestMark(entries, startMark)

\* Map.set on PerformanceService.metrics
metricsSet(map, name, value) ==
    {e \in map : e[1] # name} \cup {<<name, value>>}

\* trackApiCall lines 126 and 133: duration = performance.now() - startTime
durationOf(c) == now - c.startTime

\* trackApiCall: metrics after apiCall has resolved (lines 128-129: measure
\* sets the key, then the duration is set under the same key) or rejected
\* (line 134)
metricsWhenSettled(c, c2) ==
    IF c2.tracked /\ c.pc \notin Settled /\ c2.pc = "resolved"
    THEN metricsSet(metricsSet(metrics, "gemini_analysis",
                               measure(marks \cup marksWhenSettled(c, c2),
                                       "gemini_analysis_start", "gemini_analysis_end")),
                    "gemini_analysis", durationOf(c))
    ELSE IF c2.tracked /\ c.pc \notin Settled /\ c2.pc = "rejected"
    THEN metricsSet(metrics, "gemini_analysis_error", durationOf(c))
    ELSE metrics

\* the call as trackApiCall leaves it: the duration it computed and the
\* duration of the measure it recorded are kept with the call
trackApiCall(c, c2) ==
    IF c2.tracked /\ c.pc \notin Settled /\ c2.pc \in Settled
    THEN [c2 EXCEPT
            !.duration = Some(durationOf(c)),
            !.measured = IF c2.pc = "resolved"
                         THEN Some(measure(marks \cup marksWhenSettled(c, c2),
                                           "gemini_analysis_start", "gemini_analysis_end"))
                         ELSE Null]
    ELSE c2

\* the keys of PerformanceService.metrics
metricKeys == {e[1] : e \in metrics}

----------------------------------------------------------------------------
(* Gemini client: state machine *)

\* the singleton as constructed at module load
GeminiInit ==
    /\ UploadIdle
    /\ ServiceIdle
    /\ CompressIdle
    /\ CacheIdle
    /\ ClipboardIdle
    /\ AppIdle
    /\ \E envKey \in EnvKeys : apiKey = GeminiService(envKey)

\* CacheItem, lines 1-5
CacheItem(data, timestamp, ttl) == [data |-> data, timestamp |-> timestamp, ttl |-> ttl]

\* the test of get and cleanup taking an entry as expired when its age has
\* only reached its time to live
isExpired_atTtl(item, t) == t - item.timestamp >= item.ttl

\* get line 43 and cleanup line 138: the age of the entry exceeds its ttl
isExpired(item, t) == t - item.timestamp > item.ttl

\* saveToStorage lines 110-117: the entries of the cache are written
saveToStorage(entries) == entries

\* set lines 24-33, as called from another handler: the item is stored
\* under the key and the cache is saved
cacheWrite(cacheKey, data, ttl) ==
    LET item == CacheItem(data, now, ttl)
        with(entries) == [k \in DOMAIN entries \cup {cacheKey} |->
                             IF k = cacheKey THEN Some(item) ELSE entries[k]]
    IN /\ cache' = with(cache)
       /\ storage' = saveToStorage(cache')
       /\ lastSet' = with(lastSet)
       /\ returned' = Null

\* setPreference lines 76-80: the preferences read with get (none when
\* there is no entry or the entry has expired), changed and stored for 24
\* hours; the preferences are a set of pairs of name and value
setPreference(name, value) ==
    LET k == "user_preferences"
        preferences == IF cache[k] = Null \/ isExpired(cache[k][1], now)
                       THEN {} ELSE cache[k][1].data
    IN  cacheWrite(k, {e \in preferences : e[1] # name} \cup {<<name, value>>}, 86400000)

\* setApiResponse lines 88-91; params is the text JSON.stringify gives
setApiResponse(endpoint, params, response, ttl) ==
    cacheWrite("api_" \o endpoint \o "_" \o params, response, ttl)

\* call i was made by handleAnalyze
madeByApp(i) == \E n \in 1..Len(analyses) : analyses[n].call = i

\* the file and the tone handleAnalyze made call i with
analysisOf(i) == analyses[CHOOSE n \in 1..Len(analyses) : analyses[n].call = i]

\* App.handleAnalyze after the await, App lines 199-227, when the call c2 has
\* settled: the result is stored and cached, or the message of the error
\* is shown; the finally block clears isAnalyzing
handleAnalyzeSettled(file, tone, c2) ==
    /\ IF c2.pc = "resolved"
       THEN /\ appResult' = c2.result
            /\ setApiResponse("analysis", file.ext \o "," \o tone, c2.result[1], 300000)
            /\ UNCHANGED appError
       ELSE /\ appError' = c2.error
            /\ UNCHANGED <<appResult, cacheVars>>
    /\ isAnalyzing' = FALSE
    /\ analysisStartTime' = Null

\* what App does when call i has moved to c2: handleAnalyze goes on when the
\* call it awaits has settled
handleAnalyzeResumes(i, c2) ==
    IF madeByApp(i) /\ c2.pc \in Settled
    THEN /\ handleAnalyzeSettled(analysisOf(i).file, analysisOf(i).tone, c2)
         /\ resultFrom' = IF c2.pc = "resolved" THEN i ELSE resultFrom
         /\ UNCHANGED <<selectedTone, analyses, appFile>>
    ELSE UNCHANGED <<appVars, cacheVars, appFile>>

\* the Gemini client when a public method is called and has run up to its
\* first await: c is the call
Begin(c) ==
    /\ apiCalls' = Append(apiCalls, c)
    /\ network' = network \o requestsSent(Len(apiCalls) + 1, newCall(c.op, c.tone), c)
    /\ marks' = marks \cup marksAtStart(c)
    /\ UNCHANGED <<metrics, apiKey>>

\* a public method is called by a caller other than App
Start(c) ==
    /\ Begin(c)
    /\ UNCHANGED <<appVars, cacheVars, outsideService>>

\* a public method is called, within the bound of the model
StartCall(c) ==
    /\ Len(apiCalls) < MaxCalls
    /\ Start(c)

\* a promise call i waits for has settled and the call has run up to its next
\* await or to its end: c2 is the call afterwards
ServiceStep(i, c2) ==
    /\ apiCalls' = [apiCalls EXCEPT ![i] = trackApiCall(apiCalls[i], c2)]
    /\ network' = network \o requestsSent(i, apiCalls[i], c2)
    /\ marks' = marks \cup marksWhenSettled(apiCalls[i], c2)
    /\ metrics' = metricsWhenSettled(apiCalls[i], c2)
    /\ handleAnalyzeResumes(i, c2)
    /\ UNCHANGED <<apiKey, runs, selectedFile, previewUrl, isProcessing, error, objectUrls,
                   compressVars, clipboardVars, now>>

callIsApiKeyConfigured ==
    StartCall([newCall("isApiKeyConfigured", "") EXCEPT
                  !.returned = Some(isApiKeyConfigured(apiKey))])

callTestConnection == StartCall(testConnection(apiKey))

callAnalyzeImageAndGenerateReplies(tone) ==
    StartCall(analyzeImageAndGenerateReplies(apiKey, tone))

\* testConnection: fetch resolved with a response
testFetchResolved(i, status) ==
    /\ apiCalls[i].op = "testConnection"
    /\ apiCalls[i].pc = "fetching"
    /\ ServiceStep(i, testConnectionResponse(apiCalls[i], status))

\* testConnection: fetch rejected (network failure)
testFetchRejected(i) ==
    /\ apiCalls[i].op = "testConnection"
    /\ apiCalls[i].pc = "fetching"
    /\ ServiceStep(i, testConnectionCatch(apiCalls[i]))

\* convertImageToBase64 reader.onload, then lines 268-294
readerOnLoad(i) ==
    /\ apiCalls[i].pc = "encoding"
    /\ ServiceStep(i, sendRequest(apiCalls[i]))

\* convertImageToBase64 reader.onerror: the promise rejects with the event
readerOnError(i) ==
    /\ apiCalls[i].pc = "encoding"
    /\ ServiceStep(i, analyzeCatch(apiCalls[i], NonError))

\* analyzeImageAndGenerateReplies: fetch resolved with a response
fetchResolved(i, status) ==
    /\ apiCalls[i].op = "analyze"
    /\ apiCalls[i].pc = "fetching"
    /\ ServiceStep(i, receiveResponse(apiCalls[i], status))

\* analyzeImageAndGenerateReplies: fetch rejected (network failure)
fetchRejected(i) ==
    /\ apiCalls[i].op = "analyze"
    /\ apiCalls[i].pc = "fetching"
    /\ ServiceStep(i, analyzeCatch(apiCalls[i], Error("TypeError: Failed to fetch")))

\* lines 297-310: the body of an error response has been read (or was not
\* JSON, then errorData is {}), the error of the status is thrown
errorBodyRead(i, errorData) ==
    /\ apiCalls[i].pc = "errorBody"
    /\ ServiceStep(i, analyzeCatch(apiCalls[i], httpError(apiCalls[i].status[1])))

\* lines 313-322: response.json() of a response that is ok has settled
bodyRead(i, body) ==
    /\ apiCalls[i].pc = "body"
    /\ ServiceStep(i, readResponse(apiCalls[i], body))

GeminiNext ==
    \/ callIsApiKeyConfigured
    \/ callTestConnection
    \/ \E tone \in ReplyTone : callAnalyzeImageAndGenerateReplies(tone)
    \/ \E i \in 1..Len(apiCalls), status \in Statuses : testFetchResolved(i, status)
    \/ \E i \in 1..Len(apiCalls) : testFetchRejected(i)
    \/ \E i \in 1..Len(apiCalls) : readerOnLoad(i)
    \/ \E i \in 1..Len(apiCalls) : readerOnError(i)
    \/ \E i \in 1..Len(apiCalls), status \in Statuses : fetchResolved(i, status)
    \/ \E i \in 1..Len(apiCalls) : fetchRejected(i)
    \/ \E i \in 1..Len(apiCalls), errorData \in ErrorBodies : errorBodyRead(i, errorData)
    \/ \E i \in 1..Len(apiCalls), body \in Bodies : bodyRead(i, body)

GeminiSpec == GeminiInit /\ [][GeminiNext]_vars

----------------------------------------------------------------------------
(* Properties of the Gemini client *)

CallIds == 1..Len(apiCalls)
AnalyzeIds == {i \in CallIds : apiCalls[i].op = "analyze"}
TestIds == {i \in CallIds : apiCalls[i].op = "testConnection"}

\* the requests on the network that call i has sent
sentBy(i) == {n \in 1..Len(network) : network[n].call = i}

\* a success status
success(status) == status \in 200..299

\* C11: without a credential isApiKeyConfigured returns false and every
\* analyzeImageAndGenerateReplies call is rejected at once with the
\* configuration error, before trackApiCall and with no request sent;
\* isApiKeyConfigured returns true exactly when a credential is present and
\* sends no request itself.
C11_NoCredentialNoRequest ==
    /\ \A i \in CallIds :
          apiCalls[i].op = "isApiKeyConfigured" =>
              /\ apiCalls[i].pc = "resolved"
              /\ apiCalls[i].returned = Some(apiKey # Null)
              /\ sentBy(i) = {}
    /\ apiKey = Null =>
          /\ network = <<>>
          /\ \A i \in AnalyzeIds :
                /\ apiCalls[i].pc = "rejected"
                /\ apiCalls[i].error = Some("Gemini API key not configured")
                /\ apiCalls[i].result = Null
                /\ ~apiCalls[i].tracked
          /\ marks = {}
          /\ metrics = {}

C11_Witness ==
    /\ apiKey = Null
    /\ \E i \in AnalyzeIds : apiCalls[i].pc = "rejected" /\ sentBy(i) = {}

\* C12: testConnection never throws: it returns false for every status that
\* is no success status and for every network failure, and true only when
\* the endpoint answered with a success status.
C12_TestConnectionNeverThrows ==
    \A i \in TestIds :
        LET c == apiCalls[i]
        IN  /\ c.pc # "rejected"
            /\ c.error = Null
            /\ c.pc = "resolved" =>
                  /\ c.returned \in {Some(TRUE), Some(FALSE)}
                  /\ c.returned = Some(TRUE) <=>
                        (c.status # Null /\ success(c.status[1]) /\ sentBy(i) # {})

C12_Witness ==
    \E i \in TestIds :
        /\ apiCalls[i].pc = "resolved"
        /\ sentBy(i) # {}
        /\ apiCalls[i].status = Null
        /\ apiCalls[i].returned = Some(FALSE)

\* the errors of a call that ends before its request is built
beforeRequest ==
    {Some("Gemini API key not configured"),
     Some("Failed to analyze image. Please try again.")}

\* C13 as stated: every analyzeImageAndGenerateReplies call that has settled
\* has made exactly one round trip to the endpoint.
C13_ExactlyOneRoundTrip ==
    \A i \in AnalyzeIds :
        apiCalls[i].pc \in Settled => Cardinality(sentBy(i)) = 1

\* C13 amended: an analyzeImageAndGenerateReplies call sends at most one
\* request: exactly one once the credential test has passed and the image is
\* encoded, none when it fails before that, and it never sends the request
\* again after an HTTP error, a network error or a parse error.
C13_AtMostOneRoundTrip ==
    \A i \in AnalyzeIds :
        LET c == apiCalls[i]
        IN  /\ Cardinality(sentBy(i)) = c.fetches
            /\ c.fetches <= 1
            /\ c.pc = "encoding" => c.fetches = 0
            /\ c.pc \in {"fetching", "errorBody", "body", "resolved"} => c.fetches = 1
            /\ c.pc = "rejected" => (c.fetches = 0 <=> c.error \in beforeRequest)
            /\ c.status # Null => c.fetches = 1

C13_Witness ==
    \E i \in AnalyzeIds :
        /\ apiCalls[i].pc = "rejected"
        /\ apiCalls[i].status = Some(503)
        /\ Cardinality(sentBy(i)) = 1
        /\ "gemini_analysis_error" \in metricKeys

\* the category the claim gives to a status that is no success status
categoryOfStatus(status) ==
    IF status = 400 THEN <<"invalid request">>
    ELSE IF status = 401 THEN <<"invalid credential">>
    ELSE IF status = 429 THEN <<"rate limited">>
    ELSE IF status >= 500 THEN <<"server error">>
    ELSE <<"request failed", ToString(status)>>

\* the category of an error message of the client
categoryOfMessage(message, status) ==
    IF message = "Invalid request. Please check your image and try again."
    THEN <<"invalid request">>
    ELSE IF message = "Invalid API key. Please check your configuration."
    THEN <<"invalid credential">>
    ELSE IF message = "Rate limit exceeded. Please wait a moment and try again."
    THEN <<"rate limited">>
    ELSE IF message = "Server error. Please try again later."
    THEN <<"server error">>
    ELSE IF message = "API request failed (" \o ToString(status) \o "). Please try again."
    THEN <<"request failed", ToString(status)>>
    ELSE <<"other">>

\* two statuses get the same message exactly when they are of one category
CategoriesDistinct ==
    \A s1, s2 \in {s \in Statuses : ~success(s)} :
        (httpError(s1).message = httpError(s2).message)
            <=> (categoryOfStatus(s1) = categoryOfStatus(s2))

\* C14: on a response that is no success the call fails with the error of
\* the status: 400 invalid request, 401 invalid credential, 429 rate
\* limited, 500 and above server error, any other status request failed
\* with the status; whatever the error body holds; the messages of different
\* categories differ.
C14_ErrorByStatus ==
    /\ \A i \in AnalyzeIds :
          LET c == apiCalls[i]
          IN  (c.status # Null /\ ~success(c.status[1])) =>
                  /\ c.pc \in {"errorBody", "rejected"}
                  /\ c.result = Null
                  /\ c.pc = "rejected" =>
                        /\ c.error # Null
                        /\ categoryOfMessage(c.error[1], c.status[1])
                              = categoryOfStatus(c.status[1])
    /\ CategoriesDistinct

C14_Witness ==
    \E i \in AnalyzeIds :
        /\ apiCalls[i].pc = "rejected"
        /\ apiCalls[i].status = Some(429)
        /\ apiCalls[i].error # Some(httpError(401).message)
        /\ apiCalls[i].error = Some("Rate limit exceeded. Please wait a moment and try again.")

\* the calls that returned an AnalysisResult
ResultIds == {i \in AnalyzeIds : apiCalls[i].result # Null}

\* the text of the first part of the first candidate of a body: Null when
\* the body has none
candidateText(body) ==
    IF body = Null THEN Null
    ELSE IF body[1].candidates = Null THEN Null
    ELSE IF body[1].candidates[1] = <<>> THEN Null
    ELSE IF body[1].candidates[1][1].content = Null THEN Null
    ELSE IF body[1].candidates[1][1].content[1].parts = <<>> THEN Null
    ELSE body[1].candidates[1][1].content[1].parts[1].text

\* the text of the response call i has read: Null when it has read none
responseTextOf(i) ==
    IF apiCalls[i].body = Null THEN Null ELSE candidateText(apiCalls[i].body[1])

\* the value the member tokens give to the name: Null when none does
valueIn(tokens, name) ==
    LET at == {n \in 1..Len(tokens) : tokens[n] = field(name, tokens[n][3])}
    IN  IF at = {} THEN Null
        ELSE Some(tokens[CHOOSE n \in at : \A m \in at : n >= m][3])

\* C15: every AnalysisResult holds between 1 and 3 replies; a response with
\* an empty replies array fails with the parse error.
C15_OneToThreeReplies ==
    /\ \A i \in ResultIds : Len(apiCalls[i].result[1].replies) \in 1..3
    /\ \A i \in AnalyzeIds :
          responseTextOf(i) = Some(textOf(NoRepliesObject)) =>
              /\ apiCalls[i].pc = "rejected"
              /\ apiCalls[i].error = Some(ParseFailure.error.message)

\* the texts that hold one of the response objects, with or without prose
\* around it
TextsWithObject ==
    {before \o textOf(o) \o after : o \in Objects, before \in Proses, after \in Proses}

\* the contexts of the response objects
ObjectContexts == {valueIn(o.members, "context") : o \in Objects}

holdsObject(t) == t \in TextsWithObject

BodyOfObject == [o \in Objects |-> Some(dataWithText(textOf(o)))]

\* C17: for a response text that is a JSON object with a non-empty context
\* and a non-empty replies array the result has the context of the response
\* and its replies in the same order with the same text, and a reply without
\* tone gets the tone CASUAL.
C17_ParserKeepsContextAndReplies ==
    \A i \in AnalyzeIds, o \in Objects :
        (/\ apiCalls[i].pc \in Settled
         /\ apiCalls[i].body # Null
         /\ apiCalls[i].body[1] = BodyOfObject[o]
         /\ o.replyMembers # <<>>)
            => /\ apiCalls[i].result # Null
               /\ LET r == apiCalls[i].result[1]
                  IN  /\ Some(r.context) = valueIn(o.members, "context")
                      /\ Len(r.replies) = Len(o.replyMembers)
                      /\ \A n \in 1..Len(o.replyMembers) :
                            /\ Some(r.replies[n].text) =
                                  (IF valueIn(o.replyMembers[n], "text") = Null
                                   THEN Some("")
                                   ELSE valueIn(o.replyMembers[n], "text"))
                            /\ valueIn(o.replyMembers[n], "tone") = Null
                                  => r.replies[n].tone = "CASUAL"

C17_Witness ==
    \E i \in ResultIds :
        /\ responseTextOf(i) = Some(textOf(MixedRepliesObject))
        /\ apiCalls[i].result[1].replies[1].tone = "WITTY"
        /\ apiCalls[i].result[1].replies[2].tone = "CASUAL"
        /\ apiCalls[i].result[1].replies[2].text = "b"

\* C18: for a response text that is a valid JSON object with prose before
\* and / or after it, the parser recovers the object whatever the prose
\* holds, braces included.
C18_EmbeddedObjectRecovered ==
    \A i \in AnalyzeIds, o \in Objects, before \in Proses, after \in Proses :
        (/\ apiCalls[i].pc \in Settled
         /\ responseTextOf(i) = Some(before \o textOf(o) \o after))
            => /\ apiCalls[i].result # Null
               /\ Some(apiCalls[i].result[1].context) = valueIn(o.members, "context")
               /\ Len(apiCalls[i].result[1].replies) = Len(o.replyMembers)

\* C19: within every AnalysisResult the ids of the replies are pairwise
\* distinct, for replies with their own id and replies with the positional
\* fallback id.
C19_ReplyIdsDistinct ==
    \A i \in ResultIds :
        LET replies == apiCalls[i].result[1].replies
        IN  \A m, n \in 1..Len(replies) : replies[m].id = replies[n].id => m = n

\* C20: every reply of the result of a call carries the tone the call was
\* made with, for each of the six tones.
C20_RepliesCarryRequestedTone ==
    \A i \in ResultIds :
        LET replies == apiCalls[i].result[1].replies
        IN  \A n \in 1..Len(replies) : replies[n].tone = apiCalls[i].tone

\* the prompts of the requests that analyzeImageAndGenerateReplies calls sent
promptsSent ==
    {<<apiCalls[network[n].call].tone, network[n].body.text>> :
        n \in {m \in 1..Len(network) : apiCalls[network[m].call].op = "analyze"}}

\* the guidance of a tone differs from the guidance of every other tone
GuidanceDistinct ==
    \A t1, t2 \in ReplyTone :
        t1 # t2 => /\ getToneGuidelines(t1) # getToneGuidelines(t2)
                   /\ getToneGuidelines(t1).style # getToneGuidelines(t2).style

\* the members of a sequence
range(seq) == {seq[n] : n \in 1..Len(seq)}

\* C21: createChatAnalysisPrompt is deterministic and, for each of the six
\* tones, the prompt holds the style guidance of that tone, which differs
\* from the guidance of every other tone, and the names context, replies,
\* id, text and reasoning of the JSON contract.
C21_PromptHoldsToneGuidance ==
    /\ GuidanceDistinct
    /\ \A p \in promptsSent :
          /\ p[2].toneGuidelines = guidelines[p[1]]
          /\ p[2].tone = toneToLowerCase(p[1])
          /\ {"context", "replies"} \subseteq range(p[2].members)
          /\ {"id", "text", "reasoning"} \subseteq range(p[2].replyMembers)
    /\ \A p, q \in promptsSent : p[1] = q[1] => p[2] = q[2]

C21_Witness ==
    \E p \in promptsSent :
        /\ p[1] = "FLIRTY"
        /\ p[2].toneGuidelines.style[1] = "Playful, charming, with subtle romantic interest"

----------------------------------------------------------------------------
(* compressImage called on its own, with the bounds its caller chooses *)

\* width and height of the images given to compressImage
Sides == {1, 2, 900, 1000, 1920, 1921, 4000, 10000}

\* the options argument: each bound is given or left out
CompressOptions ==
    {[maxWidth |-> Null, maxHeight |-> Null],
     [maxWidth |-> Some(1920), maxHeight |-> Some(800)],
     [maxWidth |-> Some(800), maxHeight |-> Some(400)],
     [maxWidth |-> Some(400), maxHeight |-> Some(800)]}

\* compressImage lines 63-68: an option left out gets its default
optionOr(option, default) == IF option = Null THEN default ELSE option[1]

\* compressImage lines 59-74: the call up to img.src, waiting for the decode
compressImageCall(file, options) ==
    [file |-> file,
     maxWidth |-> optionOr(options.maxWidth, 1920),
     maxHeight |-> optionOr(options.maxHeight, 1920),
     pc |-> "load",
     dims |-> newDimensions(0, 0, 0, 0),
     canvas |-> [width |-> 0, height |-> 0],
     result |-> Null, err |-> Null]

\* one compressImage call, on any image and with any of the options
CompressInit ==
    /\ UploadIdle
    /\ apiKey = Null
    /\ ServiceIdle
    /\ CacheIdle
    /\ ClipboardIdle
    /\ AppIdle
    /\ \E w \in Sides, h \in Sides, options \in CompressOptions :
          image = Some(compressImageCall(File("image/jpeg", "jpg", 2 * MB, w, h), options))

\* compressImage img.onload up to toBlob, lines 75-97: the new dimensions
\* and the canvas set to them
compressImageOnLoad ==
    /\ image # Null
    /\ image[1].pc = "load"
    /\ LET c == image[1]
           d == newDimensions(c.file.w, c.file.h, c.maxWidth, c.maxHeight)
       IN image' = Some([c EXCEPT !.pc = "blob",
                                  !.dims = d,
                                  !.canvas = [width |-> canvasSize(d.wNum, d.wDen),
                                              height |-> canvasSize(d.hNum, d.hDen)]])
    /\ UNCHANGED outsideCompress

\* compressImage toBlob callback with a blob, lines 100-113
compressImageOnBlob(blobSize) ==
    /\ image # Null
    /\ image[1].pc = "blob"
    /\ image[1].canvas.width > 0
    /\ image[1].canvas.height > 0
    /\ LET c == image[1]
       IN image' = Some([c EXCEPT
              !.pc = "resolved",
              !.result = Some([file |-> File("image/jpeg", c.file.ext, blobSize,
                                             c.canvas.width, c.canvas.height),
                               originalSize |-> c.file.size,
                               processedSize |-> blobSize,
                               width |-> mathRound(c.dims.wNum, c.dims.wDen),
                               height |-> mathRound(c.dims.hNum, c.dims.hDen),
                               format |-> "image/jpeg"])])
    /\ UNCHANGED outsideCompress

\* compressImage toBlob callback without a blob, lines 114-116
compressImageOnNoBlob ==
    /\ image # Null
    /\ image[1].pc = "blob"
    /\ image' = Some([image[1] EXCEPT !.pc = "rejected",
                                      !.err = Some(<<"Failed to compress image">>)])
    /\ UNCHANGED outsideCompress

\* compressImage img.onerror, line 120
compressImageOnError ==
    /\ image # Null
    /\ image[1].pc = "load"
    /\ image' = Some([image[1] EXCEPT
                        !.pc = "rejected",
                        !.err = Some(<<"Failed to load image for compression">>)])
    /\ UNCHANGED outsideCompress

CompressNext ==
    \/ compressImageOnLoad
    \/ \E blobSize \in CompressBlobSizes : compressImageOnBlob(blobSize)
    \/ compressImageOnNoBlob
    \/ compressImageOnError

CompressSpec == CompressInit /\ [][CompressNext]_vars

\* the canvas of the compressImage call has been given its dimensions
canvasSet == image # Null /\ image[1].pc \in {"blob", "resolved"}

\* C23: for every image and every pair of bounds given to compressImage,
\* the output is at most maxWidth wide and at most maxHeight high, also
\* when the two bounds differ.
C23_OutputWithinBothBounds ==
    canvasSet =>
        /\ image[1].canvas.width <= image[1].maxWidth
        /\ image[1].canvas.height <= image[1].maxHeight
        /\ image[1].result # Null =>
              /\ image[1].result[1].width <= image[1].maxWidth
              /\ image[1].result[1].height <= image[1].maxHeight

\* C24: for an image of at least 1x1 the computed width and height are
\* never zero or negative: the canvas dimensions and the rounded values
\* reported are at least 1.
C24_DimensionsAtLeastOne ==
    canvasSet =>
        /\ image[1].canvas.width >= 1
        /\ image[1].canvas.height >= 1
        /\ image[1].result # Null =>
              /\ image[1].result[1].width >= 1
              /\ image[1].result[1].height >= 1

----------------------------------------------------------------------------
(* CacheService: entries with a time to live *)

\* the latest time the clock reaches
MaxTime == 4

\* the values stored and the times to live they are stored with, in ticks
\* of the clock
CacheData == {"a", "b"}
Ttls == {0, 2}

\* the call that returned: its name, its key, its result and its time
Returned(op, cacheKey, value) == Some([op |-> op, key |-> cacheKey, value |-> value, at |-> now])

\* set lines 24-33
cacheSet(cacheKey, data, ttl) ==
    /\ cacheWrite(cacheKey, data, ttl)
    /\ UNCHANGED <<now, outsideCache>>

\* get lines 36-51
cacheGet(cacheKey) ==
    /\ IF cache[cacheKey] = Null
       THEN /\ returned' = Returned("get", cacheKey, Null)
            /\ UNCHANGED <<cache, storage>>
       ELSE IF isExpired(cache[cacheKey][1], now)
            THEN /\ cache' = [cache EXCEPT ![cacheKey] = Null]
                 /\ storage' = saveToStorage(cache')
                 /\ returned' = Returned("get", cacheKey, Null)
            ELSE /\ returned' = Returned("get", cacheKey, Some(cache[cacheKey][1].data))
                 /\ UNCHANGED <<cache, storage>>
    /\ UNCHANGED <<lastSet, now, outsideCache>>

\* delete lines 59-62
cacheDelete(cacheKey) ==
    /\ cache' = [cache EXCEPT ![cacheKey] = Null]
    /\ storage' = saveToStorage(cache')
    /\ lastSet' = [lastSet EXCEPT ![cacheKey] = Null]
    /\ returned' = Null
    /\ UNCHANGED <<now, outsideCache>>

\* clear lines 65-68
cacheClear ==
    /\ cache' = [k \in Keys |-> Null]
    /\ storage' = saveToStorage(cache')
    /\ lastSet' = [k \in Keys |-> Null]
    /\ returned' = Null
    /\ UNCHANGED <<now, outsideCache>>

\* cleanup lines 133-145
cleanup ==
    /\ cache' = [k \in Keys |->
                    IF cache[k] # Null /\ isExpired(cache[k][1], now)
                    THEN Null ELSE cache[k]]
    /\ storage' = saveToStorage(cache')
    /\ returned' = Returned("cleanup", "", Null)
    /\ UNCHANGED <<lastSet, now, outsideCache>>

\* time passes
cacheTick ==
    /\ now < MaxTime
    /\ now' = now + 1
    /\ UNCHANGED <<cacheVars, outsideCache>>

CacheInit ==
    /\ UploadIdle
    /\ apiKey = Null
    /\ ServiceIdle
    /\ CompressIdle
    /\ CacheIdle
    /\ ClipboardIdle
    /\ AppIdle

CacheNext ==
    \/ \E cacheKey \in Keys, data \in CacheData, ttl \in Ttls : cacheSet(cacheKey, data, ttl)
    \/ \E cacheKey \in Keys : cacheGet(cacheKey)
    \/ \E cacheKey \in Keys : cacheDelete(cacheKey)
    \/ cacheClear
    \/ cleanup
    \/ cacheTick

CacheSpec == CacheInit /\ [][CacheNext]_vars

\* the step is a call of get or of cleanup that returned
justReturned(op) ==
    /\ returned' # Null
    /\ returned' # returned
    /\ returned'[1].op = op

\* an entry is in the cache exactly as long as the item last set for its
\* key (and not deleted) has not been found expired
CacheHoldsLastSet ==
    \A k \in Keys :
        /\ cache[k] # Null => cache[k] = lastSet[k]
        /\ (cache[k] = Null /\ lastSet[k] # Null) => isExpired(lastSet[k][1], now)
        /\ storage[k] = cache[k]

\* C29: after set(k, v, ttl) with no later set or delete of k, get(k)
\* returns v while the time since the set is at most ttl, and returns null
\* and removes the entry once it is greater; cleanup removes exactly the
\* entries whose age exceeds their ttl.
C29_GetAndCleanupHonourTtl ==
    /\ []CacheHoldsLastSet
    /\ [][/\ justReturned("get") =>
                LET k == returned'[1].key
                    set == lastSet[k]
                IN set # Null =>
                      IF now - set[1].timestamp <= set[1].ttl
                      THEN /\ returned'[1].value = Some(set[1].data)
                           /\ cache'[k] = set
                      ELSE /\ returned'[1].value = Null
                           /\ cache'[k] = Null
          /\ justReturned("cleanup") =>
                \A k \in Keys :
                    IF cache[k] # Null /\ now - cache[k][1].timestamp > cache[k][1].ttl
                    THEN cache'[k] = Null
                    ELSE cache'[k] = cache[k]]_vars

\* get has answered null for a key whose item had outlived its ttl, and
\* the entry is gone
C29_Witness ==
    /\ returned # Null
    /\ returned[1].op = "get"
    /\ returned[1].value = Null
    /\ lastSet[returned[1].key] # Null
    /\ returned[1].at - lastSet[returned[1].key][1].timestamp
          = lastSet[returned[1].key][1].ttl + 1
    /\ cache[returned[1].key] = Null
    /\ \E k \in Keys : cache[k] # Null /\ now - cache[k][1].timestamp = cache[k][1].ttl

----------------------------------------------------------------------------
(* ReplyResults: copying a reply and the two seconds of "Copied!" *)

\* the ids handleCopy is called with (the ids of the replies shown) and the
\* id handleCopyAll uses
CopyIds == {"1", "2", "all"}

\* the delay of the reset timer, lines 33 and 53, in ticks of the clock (a
\* tick is a second)
resetDelay == 2

\* handleCopy lines 27-30 and handleCopyAll lines 44-50, up to the await;
\* the buttons are disabled while isCopying (lines 197, 277)
handleCopy(replyId) ==
    /\ ~isCopying
    /\ isCopying' = TRUE
    /\ copying' = Some(replyId)
    /\ UNCHANGED <<copySuccessId, timers, lastSuccess, now, outsideClipboard>>

\* clipboardService.copyToClipboard has answered: handleCopy lines 31-40;
\* the service answers false instead of throwing (clipboardService
\* copyToClipboard, lines 163-177 of the cacheService.ts file)
copyAnswered(copied) ==
    /\ copying # Null
    /\ IF copied
       THEN /\ copySuccessId' = copying
            /\ timers' = timers \cup {now + resetDelay}
            /\ lastSuccess' = Some([id |-> copying[1], at |-> now])
       ELSE UNCHANGED <<copySuccessId, timers, lastSuccess>>
    /\ isCopying' = FALSE
    /\ copying' = Null
    /\ UNCHANGED <<now, outsideClipboard>>

\* a reset timer is due: () => setCopySuccessId(null), lines 33 and 53
resetTimerFires ==
    /\ \E due \in timers :
          /\ due <= now
          /\ timers' = timers \ {due}
    /\ copySuccessId' = Null
    /\ UNCHANGED <<isCopying, copying, lastSuccess, now, outsideClipboard>>

\* a second passes; the timers that are due run first
clipboardTick ==
    /\ now < MaxTime
    /\ \A due \in timers : due > now
    /\ now' = now + 1
    /\ UNCHANGED <<clipboardVars, outsideClipboard>>

ClipboardInit ==
    /\ UploadIdle
    /\ apiKey = Null
    /\ ServiceIdle
    /\ CompressIdle
    /\ CacheIdle
    /\ ClipboardIdle
    /\ AppIdle

ClipboardNext ==
    \/ \E replyId \in CopyIds : handleCopy(replyId)
    \/ \E copied \in BOOLEAN : copyAnswered(copied)
    \/ resetTimerFires
    \/ clipboardTick

ClipboardSpec == ClipboardInit /\ [][ClipboardNext]_vars

\* C30: after a copy with id X has succeeded, copySuccessId holds the id of
\* the most recent successful copy for the full 2 seconds that follow it:
\* the reset timer of an earlier copy never clears the id of a later copy.
C30_SuccessIdHeldTwoSeconds ==
    (lastSuccess # Null /\ now - lastSuccess[1].at < resetDelay)
        => copySuccessId = Some(lastSuccess[1].id)

----------------------------------------------------------------------------
(* Two callers of analyzeImageAndGenerateReplies at the same time *)

\* number of analyzeImageAndGenerateReplies calls that overlap
MaxConcurrent == 2

\* the singleton constructed with a credential
ConcurrentInit ==
    /\ UploadIdle
    /\ ServiceIdle
    /\ CompressIdle
    /\ CacheIdle
    /\ ClipboardIdle
    /\ AppIdle
    /\ apiKey = GeminiService(Some("AIza-key"))

\* a caller calls analyzeImageAndGenerateReplies while other calls may be
\* waiting
concurrentAnalyze(tone) ==
    /\ Len(apiCalls) < MaxConcurrent
    /\ Start(analyzeImageAndGenerateReplies(apiKey, tone))

\* time passes while the calls wait: performance.now() advances
serviceTick ==
    /\ now < MaxTime
    /\ now' = now + 1
    /\ UNCHANGED <<uploadVars, serviceVars, compressVars, cacheVars, clipboardVars, appVars>>

ConcurrentNext ==
    \/ concurrentAnalyze("CASUAL")
    \/ \E i \in 1..Len(apiCalls) : readerOnLoad(i)
    \/ \E i \in 1..Len(apiCalls) : fetchResolved(i, 200)
    \/ \E i \in 1..Len(apiCalls) : fetchRejected(i)
    \/ \E i \in 1..Len(apiCalls) : bodyRead(i, BodyOfObject[WellFormedObject])
    \/ serviceTick

ConcurrentSpec == ConcurrentInit /\ [][ConcurrentNext]_vars

\* C22: two concurrent analyzeImageAndGenerateReplies calls share no mutable
\* state: in every interleaving, what each call reads and writes, and what
\* trackApiCall records for it, is what it would be had the call run alone.
\* Alone, the measure recorded for a call that resolved spans the call from
\* its own start mark to its end, so it equals the duration of the call.
C22_TrackedAsIfAlone ==
    \A i \in AnalyzeIds :
        (apiCalls[i].tracked /\ apiCalls[i].pc = "resolved")
            => apiCalls[i].measured = apiCalls[i].duration

----------------------------------------------------------------------------
(* App: image, tone, Analyze and Start Over *)
(* Analytics and toasts are written by the handlers and never read back; *)
(* they are not part of the state. *)

\* number of calls handleAnalyze makes in a behaviour
MaxAnalyses == 2

\* the screenshots the user selects: both pass validation and need neither
\* conversion nor compression
AppFiles ==
    {File("image/jpeg", "jpg", 1 * MB, 4000, 3000),
     File("image/png", "png", 2 * MB, 1000, 1000)}

\* the screenshot the user drops on the upload area
droppedFile == File("image/png", "png", 2 * MB, 1000, 1000)

\* the tones the user selects
AppTones == {"CASUAL", "WITTY"}

\* App lines 128-153, checkApiConfig: the error App shows after the check
\* of the configuration at mount
checkApiConfig(k) ==
    IF isApiKeyConfigured(k)
    THEN {Null, Some("Unable to connect to Gemini API. Please check your API key.")}
    ELSE {Some("Gemini API key not configured. Please set REACT_APP_GEMINI_API_KEY environment variable.")}

\* App lines 109-114: the first visit is recorded in the preferences
firstVisit ==
    [k \in Keys |-> IF k = "user_preferences"
                    THEN Some(CacheItem({<<"has_visited", "true">>}, 0, 86400000))
                    ELSE Null]

\* App as mounted, with ImageUpload, after the mount effects
AppInit ==
    /\ UploadIdle
    /\ ServiceIdle
    /\ CompressIdle
    /\ ClipboardIdle
    /\ now = 0
    /\ cache = firstVisit
    /\ storage = saveToStorage(firstVisit)
    /\ lastSet = firstVisit
    /\ returned = Null
    /\ selectedTone = Null
    /\ isAnalyzing = FALSE
    /\ appResult = Null
    /\ analysisStartTime = Null
    /\ analyses = <<>>
    /\ resultFrom = 0
    /\ \E envKey \in {Null, Some("AIza-key")} :
          /\ apiKey = GeminiService(envKey)
          /\ appError \in checkApiConfig(apiKey)

\* what the handlers of App that do not touch ImageUpload leave alone
uploadState == <<runs, selectedFile, previewUrl, isProcessing, error, objectUrls>>

\* handleToneSelect, App lines 169-179; ToneSelector calls it unless it is
\* disabled, and App disables it while isAnalyzing or without a file
handleToneSelect(tone) ==
    /\ ~isAnalyzing
    /\ appFile # Null
    /\ selectedTone' = Some(tone)
    /\ appError' = Null
    /\ setPreference("last_used_tone", tone)
    /\ UNCHANGED <<isAnalyzing, appResult, analysisStartTime, analyses, resultFrom,
                   appFile, uploadState, serviceVars, outsideApp>>

\* handleAnalyze, App lines 182-229, up to the await; when the call is
\* rejected at once, the catch and finally blocks follow in the same turn
handleAnalyze ==
    IF appFile = Null \/ selectedTone = Null
    THEN /\ appError' = Some("Please select both an image and a tone.")
         /\ UNCHANGED <<selectedTone, isAnalyzing, appResult, analysisStartTime, analyses,
                        resultFrom, appFile, uploadState, serviceVars, cacheVars, outsideApp>>
    ELSE LET c == analyzeImageAndGenerateReplies(apiKey, selectedTone[1])
         IN  /\ Len(analyses) < MaxAnalyses
             /\ Begin(c)
             /\ analyses' = Append(analyses, [call |-> Len(apiCalls) + 1,
                                              file |-> appFile[1],
                                              tone |-> selectedTone[1]])
             /\ IF c.pc \in Settled
                THEN handleAnalyzeSettled(appFile[1], selectedTone[1], c)
                ELSE /\ isAnalyzing' = TRUE
                     /\ appError' = Null
                     /\ analysisStartTime' = Some(now)
                     /\ UNCHANGED <<appResult, cacheVars>>
             /\ UNCHANGED <<selectedTone, resultFrom, appFile, uploadState, outsideApp>>

\* App line 279: the Analyze button is rendered when canAnalyze
canAnalyze == appFile # Null /\ selectedTone # Null /\ ~isAnalyzing /\ appError = Null

\* the Analyze button is clicked, App lines 383-387
clickAnalyze ==
    /\ canAnalyze
    /\ handleAnalyze

\* a test of the keyboard shortcut that does not look at isAnalyzing
shortcutEnabled_whileAnalyzing == appFile # Null /\ selectedTone # Null

\* handleKeyPress, App line 258: the test of the Ctrl/Cmd+Enter shortcut
shortcutEnabled == appFile # Null /\ selectedTone # Null /\ ~isAnalyzing

\* handleKeyPress, App lines 254-261: Ctrl/Cmd+Enter is pressed
handleKeyPress ==
    /\ shortcutEnabled
    /\ handleAnalyze

\* handleReset, App lines 232-238; Start Over is rendered with a result
handleReset ==
    /\ appResult # Null
    /\ appFile' = Null
    /\ selectedTone' = Null
    /\ appResult' = Null
    /\ resultFrom' = 0
    /\ appError' = Null
    /\ UNCHANGED <<isAnalyzing, analysisStartTime, analyses, uploadState, serviceVars,
                   cacheVars, outsideApp>>

AppNext ==
    \/ \E file \in AppFiles : handleFileInputChange(file)
    \/ handleDrop(droppedFile)
    \/ \E i \in 1..Len(runs) : previewOnLoad(i)
    \/ \E i \in 1..Len(runs) : previewOnError(i)
    \/ handleRemove
    \/ \E tone \in AppTones : handleToneSelect(tone)
    \/ clickAnalyze
    \/ handleKeyPress
    \/ handleReset
    \/ \E i \in 1..Len(apiCalls) : readerOnLoad(i)
    \/ \E i \in 1..Len(apiCalls) : fetchResolved(i, 200)
    \/ \E i \in 1..Len(apiCalls) : fetchRejected(i)
    \/ \E i \in 1..Len(apiCalls) : bodyRead(i, BodyOfObject[WellFormedObject])

AppSpec == AppInit /\ [][AppNext]_vars

\* the calls of handleAnalyze that have not settled
inFlight ==
    {n \in 1..Len(analyses) : apiCalls[analyses[n].call].pc \notin Settled}

\* C25: whenever analysisResult is not null it was produced by a call made
\* with the file and the tone that are selected now; the result of a call
\* started before another image was selected or before a reset is never
\* stored afterwards.
C25_ResultOfCurrentSelection ==
    appResult # Null =>
        /\ resultFrom # 0
        /\ appFile = Some(analysisOf(resultFrom).file)
        /\ selectedTone = Some(analysisOf(resultFrom).tone)

\* C26: App never has two analyzeImageAndGenerateReplies calls in flight:
\* handleAnalyze, from the button or from Ctrl/Cmd+Enter, starts a call only
\* while isAnalyzing is false, and isAnalyzing is true from the start of a
\* call until the call settles.
C26_OneCallInFlight ==
    /\ [](/\ Cardinality(inFlight) <= 1
          /\ isAnalyzing <=> inFlight # {})
    /\ [][Len(analyses') > Len(analyses) => ~isAnalyzing]_vars

\* a second call is in flight after the first one has settled
C26_Witness ==
    /\ Len(analyses) = 2
    /\ inFlight = {2}
    /\ isAnalyzing
    /\ appResult # Null

\* C27: after any sequence of select, remove, reset and analyze events the
\* file App holds and the file ImageUpload holds and previews agree: both
\* are empty or both are the same processed file.
C27_AppAndUploadAgree ==
    /\ appFile = selectedFile
    /\ (selectedFile = Null) <=> (previewUrl = Null)

\* the processFile runs that have delivered their file to onImageSelect
deliveredRuns ==
    {i \in 1..Len(runs) : runs[i].entry = "processFile" /\ runs[i].pc = "done"}

\* C28: when two files are selected one after the other while the first is
\* still being processed, the file that ends up selected and that was
\* delivered last to onImageSelect is the file selected last, whatever the
\* order in which the two runs complete.
C28_LastSelectedWins ==
    deliveredRuns # {} =>
        LET last == CHOOSE i \in deliveredRuns : \A j \in deliveredRuns : j <= i
        IN  appFile = Some(runs[last].result[1].file)

====
